---------------------------- MODULE Spec2Model ----------------------------
(***************************************************************************)
(* ResumeForge: the LLM provider abstraction (llm.ts: four LLMService      *)
(* implementations and the createLLMService factory) and the analysis      *)
(* enhancement pipeline (analyzer.ts: ResumeAnalyzer).                     *)
(*                                                                         *)
(* JavaScript values are modelled as follows.  A string is a TLA+ string.  *)
(* An object is a function from its own property names to their values, so *)
(* that an absent property is a name outside DOMAIN and {} is <<>>.  An    *)
(* array is a sequence.  A value that may be null is tagged (JSNull,       *)
(* JSObject).                                                              *)
(***************************************************************************)
EXTENDS Integers, Sequences, FiniteSets, TLC

(***************************************************************************)
(* Bounds of the model.                                                    *)
(***************************************************************************)
\* longest list of mixed AI suggestions the backend returns
MaxAISuggestions == 2
\* longest run of AI warnings the backend returns (enough to drive the
\* unclamped score below zero)
MaxAIWarnings == 8

(***************************************************************************)
(* Program constants of analyzer.ts.                                       *)
(***************************************************************************)
BaseScore == 100
WarningPenalty == 5
NoNamePenalty == 10
NoExperiencePenalty == 20
NoEducationPenalty == 10
NoTechnicalSkillsPenalty == 15
MinDescriptionLength == 50
MaxListedKeywords == 5

(***************************************************************************)
(* JavaScript primitives used by the code.                                 *)
(***************************************************************************)
Has(o, k) == k \in DOMAIN o

CharAt(s, i) == SubSeq(s, i, i)

IsDigit(c) == c \in {"0", "1", "2", "3", "4", "5", "6", "7", "8", "9"}

UpperToLower ==
  [A |-> "a", B |-> "b", C |-> "c", D |-> "d", E |-> "e", F |-> "f", G |-> "g",
   H |-> "h", I |-> "i", J |-> "j", K |-> "k", L |-> "l", M |-> "m", N |-> "n",
   O |-> "o", P |-> "p", Q |-> "q", R |-> "r", S |-> "s", T |-> "t", U |-> "u",
   V |-> "v", W |-> "w", X |-> "x", Y |-> "y", Z |-> "z"]

LowerChar(c) == IF c \in DOMAIN UpperToLower THEN UpperToLower[c] ELSE c

RECURSIVE ToLowerCase(_)
ToLowerCase(s) ==
  IF Len(s) = 0 THEN ""
  ELSE IF Len(s) = 1 THEN LowerChar(s)
  ELSE LET half == Len(s) \div 2
       IN  ToLowerCase(SubSeq(s, 1, half)) \o ToLowerCase(SubSeq(s, half + 1, Len(s)))

\* String.prototype.includes
Includes(text, sub) ==
  \E i \in 1..(Len(text) - Len(sub) + 1) : SubSeq(text, i, i + Len(sub) - 1) = sub

\* Array.prototype.slice(0, n)
Slice0(xs, n) == SubSeq(xs, 1, IF Len(xs) < n THEN Len(xs) ELSE n)

\* Array.prototype.join
RECURSIVE Join(_, _)
Join(xs, sep) ==
  IF xs = <<>> THEN ""
  ELSE IF Len(xs) = 1 THEN xs[1]
  ELSE xs[1] \o sep \o Join(Tail(xs), sep)

Max(a, b) == IF a >= b THEN a ELSE b
Min(a, b) == IF a <= b THEN a ELSE b

\* s continues at position i with the literal lit, ignoring case (flag i)
LiteralAt(s, i, lit) ==
  /\ i + Len(lit) - 1 <= Len(s)
  /\ ToLowerCase(SubSeq(s, i, i + Len(lit) - 1)) = lit

\* QuantifiableTest for a pattern that lost its first alternative:
\* /\d+\$|\d+,\d+|\d+ years?|\d+ months?/i
QuantifiableTestNoPercent(s) ==
  \E i \in 1..Len(s) :
    /\ IsDigit(CharAt(s, i))
    /\ \E j \in i..Len(s) :
         /\ \A k \in i..j : IsDigit(CharAt(s, k))
         /\ \/ LiteralAt(s, j + 1, "$")
            \/ (LiteralAt(s, j + 1, ",") /\ j + 2 <= Len(s) /\ IsDigit(CharAt(s, j + 2)))
            \/ LiteralAt(s, j + 1, " year")
            \/ LiteralAt(s, j + 1, " month")

\* /\d+%|\d+\$|\d+,\d+|\d+ years?|\d+ months?/i.test(s): some run of digits
\* s[i..j] is followed by one of the five continuations
QuantifiableTest(s) ==
  \E i \in 1..Len(s) :
    /\ IsDigit(CharAt(s, i))
    /\ \E j \in i..Len(s) :
         /\ \A k \in i..j : IsDigit(CharAt(s, k))
         /\ \/ LiteralAt(s, j + 1, "%")
            \/ LiteralAt(s, j + 1, "$")
            \/ (LiteralAt(s, j + 1, ",") /\ j + 2 <= Len(s) /\ IsDigit(CharAt(s, j + 2)))
            \/ LiteralAt(s, j + 1, " year")
            \/ LiteralAt(s, j + 1, " month")

(***************************************************************************)
(* JSON.stringify of a ParsedResume (analyzer.ts line 92).  Properties are *)
(* written in the order of the schema; the strings of the model contain no *)
(* character that JSON escapes.                                            *)
(***************************************************************************)
Quote(s) == "\"" \o s \o "\""

StringifyStrings(xs) == "[" \o Join([i \in 1..Len(xs) |-> Quote(xs[i])], ",") \o "]"

\* an object whose own properties among keys hold strings
StringifyStrObject(o, keys) ==
  LET ks == SelectSeq(keys, LAMBDA k : Has(o, k))
  IN  "{" \o Join([i \in 1..Len(ks) |-> Quote(ks[i]) \o ":" \o Quote(o[ks[i]])], ",") \o "}"

\* an object whose own properties among keys hold arrays of strings
StringifyListObject(o, keys) ==
  LET ks == SelectSeq(keys, LAMBDA k : Has(o, k))
  IN  "{" \o Join([i \in 1..Len(ks) |-> Quote(ks[i]) \o ":" \o StringifyStrings(o[ks[i]])], ",") \o "}"

StringifyObjects(xs, keys) ==
  "[" \o Join([i \in 1..Len(xs) |-> StringifyStrObject(xs[i], keys)], ",") \o "]"

PersonalKeys == <<"name", "email", "phone", "location", "summary">>
ExperienceKeys == <<"title", "company", "duration", "description">>
EducationKeys == <<"degree", "institution", "year", "gpa">>
SkillsKeys == <<"technical", "soft", "languages">>
ResumeKeys == <<"personalDetails", "experience", "education", "skills">>

StringifyResume(parsedResume) ==
  LET ks == SelectSeq(ResumeKeys, LAMBDA k : Has(parsedResume, k))
      Value(k) ==
        CASE k = "personalDetails" -> StringifyStrObject(parsedResume[k], PersonalKeys)
          [] k = "experience" -> StringifyObjects(parsedResume[k], ExperienceKeys)
          [] k = "education" -> StringifyObjects(parsedResume[k], EducationKeys)
          [] k = "skills" -> StringifyListObject(parsedResume[k], SkillsKeys)
  IN  "{" \o Join([i \in 1..Len(ks) |-> Quote(ks[i]) \o ":" \o Value(ks[i])], ",") \o "}"

(***************************************************************************)
(* ResumeAnalyzer: the deterministic enhancement (analyzer.ts).            *)
(***************************************************************************)
MissingEmail ==
  [type |-> "warning", title |-> "Missing Email",
   description |-> "Add a professional email address to your contact information",
   section |-> "personalDetails"]

MissingPhone ==
  [type |-> "warning", title |-> "Missing Phone Number",
   description |-> "Include a phone number for recruiters to contact you",
   section |-> "personalDetails"]

ExpandDescriptions ==
  [type |-> "info", title |-> "Expand Experience Descriptions",
   description |-> "Add more detailed descriptions of your accomplishments and responsibilities",
   section |-> "experience"]

AddQuantifiable ==
  [type |-> "warning", title |-> "Add Quantifiable Achievements",
   description |-> "Include specific numbers, percentages, or metrics to demonstrate your impact",
   section |-> "experience"]

\* MissingKeySkills without slice(0, 5): the description names every
\* missing keyword
MissingKeySkillsAll(missingKeywords) ==
  [type |-> "warning", title |-> "Missing Key Skills",
   description |-> "Consider adding these relevant skills: " \o Join(missingKeywords, ", "),
   section |-> "skills"]

MissingKeySkills(missingKeywords) ==
  [type |-> "warning", title |-> "Missing Key Skills",
   description |-> "Consider adding these relevant skills: "
                     \o Join(Slice0(missingKeywords, MaxListedKeywords), ", "),
   section |-> "skills"]

\* Truthy that asks only whether the property is there: an empty string
\* counts as a value
TruthyWhenPresent(o, k) == Has(o, k)

\* !o?.k for a string or array property: absent, "" and (for .length) [] are falsy
Truthy(o, k) == Has(o, k) /\ o[k] /= ""

\* PersonalField that takes the field as given when there is no
\* personalDetails at all: the rules then read
\* parsedResume.personalDetails && !parsedResume.personalDetails.k
PersonalFieldUnlessNoDetails(parsedResume, k) ==
  (~Has(parsedResume, "personalDetails")) \/ Truthy(parsedResume.personalDetails, k)

\* parsedResume.personalDetails?.k
PersonalField(parsedResume, k) ==
  Has(parsedResume, "personalDetails") /\ Truthy(parsedResume.personalDetails, k)

\* parsedResume.k?.length
ListLength(o, k) == IF Has(o, k) THEN Len(o[k]) ELSE 0

\* exp.description || ""
DescriptionOf(exp) == IF Has(exp, "description") THEN exp.description ELSE ""

\* ShortDescription that compares with <= : a description of exactly 50
\* characters counts as short
ShortDescriptionInclusive(exp) ==
  \/ ~Truthy(exp, "description")
  \/ Len(exp.description) <= MinDescriptionLength

\* !exp.description || exp.description.length < 50
ShortDescription(exp) ==
  \/ ~Truthy(exp, "description")
  \/ Len(exp.description) < MinDescriptionLength

\* parsedResume.experience?.some(...) of line 56
SomeShortDescription(parsedResume) ==
  /\ Has(parsedResume, "experience")
  /\ \E i \in 1..Len(parsedResume.experience) : ShortDescription(parsedResume.experience[i])

\* hasQuantifiableAchievements of lines 66-68 (undefined counts as false)
HasQuantifiableAchievements(parsedResume) ==
  /\ Has(parsedResume, "experience")
  /\ \E i \in 1..Len(parsedResume.experience) :
       QuantifiableTest(DescriptionOf(parsedResume.experience[i]))

\* the suggestions pushed by lines 36-77, in order
RuleSuggestions(parsedResume) ==
     (IF ~PersonalField(parsedResume, "email") THEN <<MissingEmail>> ELSE <<>>)
  \o (IF ~PersonalField(parsedResume, "phone") THEN <<MissingPhone>> ELSE <<>>)
  \o (IF SomeShortDescription(parsedResume) THEN <<ExpandDescriptions>> ELSE <<>>)
  \o (IF ~HasQuantifiableAchievements(parsedResume) THEN <<AddQuantifiable>> ELSE <<>>)

\* analysis.suggestions || [], analysis.keywords || []
ListOrEmpty(analysis, k) == IF Has(analysis, k) THEN analysis[k] ELSE <<>>

\* FirstScore with the filter on the type left out: every suggestion costs
FirstScoreCountingAll(suggestions) ==
  BaseScore - Len(suggestions) * WarningPenalty

FirstScore(suggestions) ==
  BaseScore - Len(SelectSeq(suggestions, LAMBDA s : s.type = "warning")) * WarningPenalty

\* SectionPenalties with the negations left out: a section that is present costs
SectionPenaltiesInverted(parsedResume) ==
    (IF PersonalField(parsedResume, "name") THEN NoNamePenalty ELSE 0)
  + (IF ListLength(parsedResume, "experience") > 0 THEN NoExperiencePenalty ELSE 0)
  + (IF ListLength(parsedResume, "education") > 0 THEN NoEducationPenalty ELSE 0)
  + (IF Has(parsedResume, "skills") /\ ListLength(parsedResume.skills, "technical") > 0
       THEN NoTechnicalSkillsPenalty ELSE 0)

SectionPenalties(parsedResume) ==
    (IF ~PersonalField(parsedResume, "name") THEN NoNamePenalty ELSE 0)
  + (IF ListLength(parsedResume, "experience") = 0 THEN NoExperiencePenalty ELSE 0)
  + (IF ListLength(parsedResume, "education") = 0 THEN NoEducationPenalty ELSE 0)
  + (IF (~Has(parsedResume, "skills")) \/ ListLength(parsedResume.skills, "technical") = 0
       THEN NoTechnicalSkillsPenalty ELSE 0)

\* ClampScore without the lower bound: Math.min(100, score)
ClampScoreNoFloor(score) == Min(BaseScore, score)

ClampScore(score) == Max(0, Min(BaseScore, score))

CalculateScore(parsedResume, suggestions) ==
  ClampScore(FirstScore(suggestions) - SectionPenalties(parsedResume))

\* EnhanceAnalysis that starts from the suggestions of the rules and pushes
\* those of the raw analysis after them
EnhanceAnalysisRulesFirst(analysis, parsedResume) ==
  LET suggestions == RuleSuggestions(parsedResume) \o ListOrEmpty(analysis, "suggestions")
  IN  ("suggestions" :> suggestions)
        @@ ("score" :> CalculateScore(parsedResume, suggestions))
        @@ analysis

\* EnhanceAnalysis with the spread written last, {suggestions, score, ...analysis}:
\* the properties of the raw analysis win
EnhanceAnalysisSpreadLast(analysis, parsedResume) ==
  LET suggestions == ListOrEmpty(analysis, "suggestions") \o RuleSuggestions(parsedResume)
  IN  analysis
        @@ ("suggestions" :> suggestions)
        @@ ("score" :> CalculateScore(parsedResume, suggestions))

\* {...analysis, suggestions, score}
EnhanceAnalysis(analysis, parsedResume) ==
  LET suggestions == ListOrEmpty(analysis, "suggestions") \o RuleSuggestions(parsedResume)
  IN  ("suggestions" :> suggestions)
        @@ ("score" :> CalculateScore(parsedResume, suggestions))
        @@ analysis

CommonSkills ==
  <<"JavaScript", "TypeScript", "React", "Node.js", "Python", "Java", "AWS", "Docker",
    "Kubernetes", "SQL", "MongoDB", "PostgreSQL", "Git", "Agile", "Scrum",
    "Machine Learning", "Data Analysis", "Project Management", "Leadership",
    "Communication", "Problem Solving", "Team Collaboration">>

IsLetter(c) == c \in {UpperToLower[u] : u \in DOMAIN UpperToLower}

\* the lower-case text has the word sub with no letter right before or after
IncludesWord(text, sub) ==
  \E i \in 1..(Len(text) - Len(sub) + 1) :
    /\ SubSeq(text, i, i + Len(sub) - 1) = sub
    /\ i = 1 \/ ~IsLetter(CharAt(text, i - 1))
    /\ i + Len(sub) > Len(text) \/ ~IsLetter(CharAt(text, i + Len(sub)))

\* ExtractKeywords that looks for whole words, as a pattern with \b would
ExtractKeywordsWholeWords(text) ==
  LET lowered == ToLowerCase(text)
  IN  SelectSeq(CommonSkills, LAMBDA skill : IncludesWord(lowered, ToLowerCase(skill)))

ExtractKeywords(text) ==
  LET lowered == ToLowerCase(text)
  IN  SelectSeq(CommonSkills, LAMBDA skill : Includes(lowered, ToLowerCase(skill)))

\* MissingKeywords that searches the serialized resume as it is, without
\* toLowerCase()
MissingKeywordsResumeAsIs(parsedResume, jobDescription) ==
  LET resumeText == StringifyResume(parsedResume)
  IN  SelectSeq(ExtractKeywords(jobDescription),
                LAMBDA keyword : ~Includes(resumeText, ToLowerCase(keyword)))

MissingKeywords(parsedResume, jobDescription) ==
  LET resumeText == ToLowerCase(StringifyResume(parsedResume))
  IN  SelectSeq(ExtractKeywords(jobDescription),
                LAMBDA keyword : ~Includes(resumeText, ToLowerCase(keyword)))

\* EnhanceJobMatchAnalysis that adds to the keywords what the suggestion
\* lists, missingKeywords.slice(0, 5)
EnhanceJobMatchAnalysisListed(analysis, parsedResume, jobDescription) ==
  LET missingKeywords == MissingKeywords(parsedResume, jobDescription)
      suggestions ==
        ListOrEmpty(analysis, "suggestions")
          \o (IF Len(missingKeywords) > 0 THEN <<MissingKeySkills(missingKeywords)>> ELSE <<>>)
  IN  ("suggestions" :> suggestions)
        @@ ("keywords" :> (ListOrEmpty(analysis, "keywords")
                             \o Slice0(missingKeywords, MaxListedKeywords)))
        @@ analysis

\* EnhanceJobMatchAnalysis that also scores the resume as enhanceAnalysis
\* does: {...analysis, suggestions, keywords, score}
EnhanceJobMatchAnalysisRescored(analysis, parsedResume, jobDescription) ==
  LET missingKeywords == MissingKeywords(parsedResume, jobDescription)
      suggestions ==
        ListOrEmpty(analysis, "suggestions")
          \o (IF Len(missingKeywords) > 0 THEN <<MissingKeySkills(missingKeywords)>> ELSE <<>>)
  IN  ("suggestions" :> suggestions)
        @@ ("keywords" :> (ListOrEmpty(analysis, "keywords") \o missingKeywords))
        @@ ("score" :> CalculateScore(parsedResume, suggestions))
        @@ analysis

\* {...analysis, suggestions, keywords}
EnhanceJobMatchAnalysis(analysis, parsedResume, jobDescription) ==
  LET missingKeywords == MissingKeywords(parsedResume, jobDescription)
      suggestions ==
        ListOrEmpty(analysis, "suggestions")
          \o (IF Len(missingKeywords) > 0 THEN <<MissingKeySkills(missingKeywords)>> ELSE <<>>)
  IN  ("suggestions" :> suggestions)
        @@ ("keywords" :> (ListOrEmpty(analysis, "keywords") \o missingKeywords))
        @@ analysis

\* AnalysisAfterEnhance for an enhancement that takes the array of the raw
\* analysis itself, const suggestions = analysis.suggestions || [], and
\* pushes onto it
AnalysisAfterEnhancePushed(analysis, parsedResume) ==
  IF Has(analysis, "suggestions")
    THEN ("suggestions" :> (analysis.suggestions \o RuleSuggestions(parsedResume))) @@ analysis
    ELSE analysis

\* AnalysisAfterEnhance for an enhancement that assigns suggestions and score
\* to the raw analysis and returns it
AnalysisAfterEnhanceInPlace(analysis, parsedResume) ==
  EnhanceAnalysis(analysis, parsedResume)

\* the object analysis once enhanceAnalysis(analysis, parsedResume) has
\* returned: line 34 copies its suggestions, lines 79-83 build a new object,
\* and nothing is assigned to it
AnalysisAfterEnhance(analysis, parsedResume) == analysis

\* the object analysis once enhanceJobMatchAnalysis has returned: lines 98
\* and 109-113 copy likewise
AnalysisAfterJobMatch(analysis, parsedResume, jobDescription) == analysis

(***************************************************************************)
(* Outcomes and JavaScript values that may be null.                        *)
(***************************************************************************)
JSNull == [type |-> "null"]
JSObject(o) == [type |-> "object", props |-> o]

Pending == [status |-> "none"]
Returned(v) == [status |-> "returned", value |-> v]
Thrown(m) == [status |-> "thrown", message |-> m]

(***************************************************************************)
(* The text a backend hands back, and JSON.parse of it.  A content is      *)
(* undefined, null, a literal text, or the JSON text of an object          *)
(* (kind "json", with the object it encodes).                              *)
(***************************************************************************)
Undefined == [kind |-> "undefined"]
Null == [kind |-> "null"]
Text(t) == [kind |-> "text", text |-> t]
JSONOf(o) == [kind |-> "json", value |-> o]

\* content || "{}"
OrEmptyObject(content) ==
  IF content.kind \in {"undefined", "null"} \/ content = Text("") THEN Text("{}") ELSE content

\* JSON.parse: its argument is first converted to a string (undefined to
\* "undefined", null to "null"); a text that is not JSON throws SyntaxError
JSONParse(content) ==
  CASE content.kind = "json" -> Returned(JSObject(content.value))
    [] content.kind = "null" -> Returned(JSNull)
    [] content.kind = "undefined" -> Thrown("Unexpected token u in JSON at position 0")
    [] content.kind = "text" ->
         CASE content.text = "{}" -> Returned(JSObject(<<>>))
           [] content.text = "null" -> Returned(JSNull)
           [] content.text = "" -> Thrown("Unexpected end of JSON input")
           [] OTHER -> Thrown("Unexpected token " \o CharAt(content.text, 1)
                                \o " in JSON at position 0")

(***************************************************************************)
(* llm.ts: the factory and the four services.                              *)
(***************************************************************************)
DEFAULT_OPENAI_MODEL == "gpt-4o"
DEFAULT_CLAUDE_MODEL == "claude-sonnet-4-20250514"
DEFAULT_GEMINI_MODEL == "gemini-2.5-flash"
DefaultOllamaUrl == "http://localhost:11434"
DefaultOllamaModel == "llama2"

NoService == [class |-> "none"]

\* config.k || fallback
ConfigOr(config, k, fallback) == IF Truthy(config, k) THEN config[k] ELSE fallback

\* new OllamaService(config)
NewOllamaService(config) ==
  [class |-> "OllamaService",
   baseUrl |-> ConfigOr(config, "url", DefaultOllamaUrl),
   model |-> ConfigOr(config, "model", DefaultOllamaModel)]

\* CreateService whose default branch falls back to OpenAIService
CreateServiceDefaulting(llmConfig) ==
  CASE llmConfig.provider = "claude" -> Returned([class |-> "ClaudeService"])
    [] llmConfig.provider = "gemini" -> Returned([class |-> "GeminiService"])
    [] llmConfig.provider = "ollama" -> Returned(NewOllamaService(llmConfig.config))
    [] OTHER -> Returned([class |-> "OpenAIService"])

\* createLLMService(config): the instance, or the error thrown
CreateService(llmConfig) ==
  CASE llmConfig.provider = "openai" -> Returned([class |-> "OpenAIService"])
    [] llmConfig.provider = "claude" -> Returned([class |-> "ClaudeService"])
    [] llmConfig.provider = "gemini" -> Returned([class |-> "GeminiService"])
    [] llmConfig.provider = "ollama" -> Returned(NewOllamaService(llmConfig.config))
    [] OTHER -> Thrown("Unsupported LLM provider: " \o llmConfig.provider)

\* The system instructions are template literals: every line after the first
\* starts with the indentation of the source at that place.
Indentation(class) ==
  CASE class = "OpenAIService" -> "          "
    [] class = "ClaudeService" -> "      "
    [] class = "GeminiService" -> "        "
    [] class = "OllamaService" -> "    "

\* the first line of the instruction
InstructionHead(class, operation) ==
  CASE operation = "parseResume" ->
         "You are a resume parsing expert. Extract structured data from the resume text and return it in JSON format with these fields:"
    [] operation = "analyzeResume" ->
         "You are a resume analysis expert. Analyze the resume and provide"
           \o (IF class \in {"ClaudeService", "OllamaService"} THEN " JSON with:" ELSE ":")
    [] operation = "analyzeJobMatch" ->
         "You are a job matching expert. Compare the resume against the job description and provide"
           \o (IF class \in {"ClaudeService", "OllamaService"} THEN " JSON with:" ELSE ":")

\* the lines that list the fields of the answer
InstructionFields(operation) ==
  CASE operation = "parseResume" ->
         <<"- personalDetails: {name, email, phone, location, summary}",
           "- experience: [{title, company, duration, description, achievements}]",
           "- education: [{degree, institution, year, gpa}]",
           "- skills: {technical, soft, languages}",
           "- projects: [{name, description, technologies}]">>
    [] operation = "analyzeResume" ->
         <<"- score: Overall score 0-100",
           "- suggestions: Array of {type: \"warning\"|\"info\"|\"success\", title, description, section}",
           "- keywords: Important keywords found",
           "- atsCompatibility: ATS compatibility score 0-100">>
    [] operation = "analyzeJobMatch" ->
         <<"- score: Match score 0-100",
           "- suggestions: Specific improvements to match the job better",
           "- keywords: Missing keywords from the job description",
           "- atsCompatibility: How well the resume would perform in ATS for this job">>

\* the lines after the fields
InstructionTail(class, operation) ==
  CASE operation = "parseResume" ->
         IF class = "GeminiService" THEN <<>>
         ELSE <<"", "Return only valid JSON without any additional text.">>
    [] operation = "analyzeResume" ->
         <<"", "Focus on industry standards, formatting, content quality, and ATS compatibility.">>
           \o (IF class = "OpenAIService" THEN <<"Return only valid JSON.">> ELSE <<>>)
    [] operation = "analyzeJobMatch" ->
         IF class = "OpenAIService" THEN <<"", "Return only valid JSON.">> ELSE <<>>

\* the instruction text of an operation of a service class
SystemPrompt(class, operation) ==
  LET rest == InstructionFields(operation) \o InstructionTail(class, operation)
  IN  Join(<<InstructionHead(class, operation)>>
             \o [i \in 1..Len(rest) |-> Indentation(class) \o rest[i]], "\n")

\* the outbound request an operation of the service issues
RequestOf(svc, operation) ==
  CASE svc.class = "OpenAIService" ->
         [api |-> "openai.chat.completions.create", model |-> DEFAULT_OPENAI_MODEL,
          operation |-> operation, system |-> SystemPrompt(svc.class, operation)]
    [] svc.class = "ClaudeService" ->
         [api |-> "anthropic.messages.create", model |-> DEFAULT_CLAUDE_MODEL,
          operation |-> operation, system |-> SystemPrompt(svc.class, operation)]
    [] svc.class = "GeminiService" ->
         [api |-> "genai.models.generateContent", model |-> DEFAULT_GEMINI_MODEL,
          operation |-> operation, system |-> SystemPrompt(svc.class, operation)]
    [] svc.class = "OllamaService" ->
         [api |-> "POST " \o svc.baseUrl \o "/api/generate", model |-> svc.model,
          operation |-> operation, system |-> SystemPrompt(svc.class, operation)]

\* OpenAIResult with the parse wrapped in try/catch, {} standing in for a
\* text that does not parse
OpenAIResultLenient(resp) ==
  IF resp.status = "ok"
    THEN LET parsed == JSONParse(OrEmptyObject(resp.content))
         IN  IF parsed.status = "thrown" THEN Returned(JSObject(<<>>)) ELSE parsed
    ELSE Thrown(resp.message)

\* JSON.parse(response.choices[0].message.content || "{}")
OpenAIResult(resp) ==
  IF resp.status = "ok" THEN JSONParse(OrEmptyObject(resp.content))
  ELSE Thrown(resp.message)

\* JSON.parse(response.content[0].text)
ClaudeResult(resp) ==
  IF resp.status = "ok" THEN JSONParse(resp.content)
  ELSE Thrown(resp.message)

\* JSON.parse(response.text || "{}")
GeminiResult(resp) ==
  IF resp.status = "ok" THEN JSONParse(OrEmptyObject(resp.content))
  ELSE Thrown(resp.message)

\* OllamaResult that falls back as the hosted services do,
\* JSON.parse(response || "{}"): a missing response field yields {}
OllamaResultDefaulting(resp) ==
  CASE resp.status = "ok" -> JSONParse(OrEmptyObject(resp.content))
    [] resp.status = "http_error" -> Thrown("Ollama request failed: " \o resp.statusText)
    [] OTHER -> Thrown(resp.message)

\* makeRequest, then JSON.parse(response)
OllamaResult(resp) ==
  CASE resp.status = "ok" -> JSONParse(resp.content)
    [] resp.status = "http_error" -> Thrown("Ollama request failed: " \o resp.statusText)
    [] OTHER -> Thrown(resp.message)

(***************************************************************************)
(* analyzer.ts: what analyzeResume and analyzeJobMatch do once the service *)
(* call has settled.  Reading a property of null throws TypeError inside   *)
(* the try block.                                                          *)
(***************************************************************************)
NullReadMessage == "Cannot read properties of null (reading 'suggestions')"

\* AnalyzeResumeOutcome whose catch block returns the rule-based analysis of
\* the resume instead of throwing
AnalyzeResumeOutcomeFallback(settled, parsedResume) ==
  IF settled.status = "returned" /\ settled.value /= JSNull
    THEN Returned(JSObject(EnhanceAnalysis(settled.value.props, parsedResume)))
    ELSE Returned(JSObject(EnhanceAnalysis(<<>>, parsedResume)))

AnalyzeResumeOutcome(settled, parsedResume) ==
  CASE settled.status = "thrown" ->
         Thrown("Failed to analyze resume: " \o settled.message)
    [] settled.status = "returned" /\ settled.value = JSNull ->
         Thrown("Failed to analyze resume: " \o NullReadMessage)
    [] OTHER ->
         Returned(JSObject(EnhanceAnalysis(settled.value.props, parsedResume)))

AnalyzeJobMatchOutcome(settled, parsedResume, jobDescription) ==
  CASE settled.status = "thrown" ->
         Thrown("Failed to analyze job match: " \o settled.message)
    [] settled.status = "returned" /\ settled.value = JSNull ->
         Thrown("Failed to analyze job match: " \o NullReadMessage)
    [] OTHER ->
         Returned(JSObject(EnhanceJobMatchAnalysis(settled.value.props, parsedResume,
                                                   jobDescription)))

(***************************************************************************)
(* Inputs: parsed resumes, raw analyses, job descriptions, configurations  *)
(* and backend responses.                                                  *)
(***************************************************************************)
\* the objects {} and {k: v} for v in V
Opt(k, V) == {<<>>} \cup {k :> v : v \in V}

SeqsUpTo(S, n) == UNION {[1..k -> S] : k \in 0..n}

DescShortPlain == "Worked on backend systems"
DescShortPercent == "increased revenue by 25%"
DescLongPlain == "Designed and maintained the backend services of the payments platform"
DescLongPercent == "Moved the build to Docker and cut the deployment time by 25% in 3 months"
\* a dollar amount with the sign before and after the digits
DescDollarLeading == "Saved $5000 in hosting costs by moving the archive to cold storage"
DescDollarTrailing == "Saved 5000$ in hosting costs by moving the archive to cold storage"
\* digits that the pattern does not match
DescLongCount == "Maintained 3 services of the payments platform and their 12 dashboards"

\* exactly 50 characters
DescFifty == "Led the migration of billing to a new data centre."

Descriptions ==
  {"", DescShortPlain, DescShortPercent, DescFifty, DescLongPlain, DescLongPercent}

ExperienceEntries == {[title |-> "Engineer"] @@ d : d \in Opt("description", Descriptions)}

ExperienceLists ==
  {<<>>} \cup {<<e>> : e \in ExperienceEntries}
    \cup {<<[title |-> "Engineer", description |-> DescLongPlain],
            [title |-> "Intern", description |-> DescShortPercent]>>,
          <<[title |-> "Engineer", description |-> DescLongCount]>>}

PersonalDetails ==
  {n @@ e @@ p : n \in Opt("name", {"", "Ann Lee"}),
                 e \in Opt("email", {"", "ann@example.com"}),
                 p \in Opt("phone", {"555-0100"})}

EducationLists == {<<>>, <<[degree |-> "BSc", institution |-> "MIT", year |-> "2019"]>>}

SkillSets == {[soft |-> <<"Leadership">>], [technical |-> <<>>],
              [technical |-> <<"Python", "SQL">>, soft |-> <<"Leadership">>]}

Resume(pd, ex, ed, sk) == pd @@ ex @@ ed @@ sk

\* resumes whose only experience description names a dollar amount
DollarResumes ==
  {[personalDetails |-> [name |-> "Ann Lee", email |-> "ann@example.com", phone |-> "555-0100"],
    experience |-> <<[title |-> "Engineer", description |-> d]>>] :
     d \in {DescDollarLeading, DescDollarTrailing}}

\* resumes with empty strings and empty lists where others have values
EmptyValueResumes ==
  {[personalDetails |-> [name |-> "", email |-> "", phone |-> ""],
    experience |-> <<>>, education |-> <<>>, skills |-> [technical |-> <<>>]],
   [personalDetails |-> [name |-> "Ann Lee", email |-> "ann@example.com", phone |-> ""],
    experience |-> <<[title |-> "Engineer", description |-> DescLongPercent]>>,
    education |-> <<>>,
    skills |-> [technical |-> <<"Python">>]],
   [personalDetails |-> [name |-> "", email |-> "ann@example.com", phone |-> "555-0100"],
    experience |-> <<[title |-> "Engineer", description |-> DescLongPercent]>>,
    education |-> <<[degree |-> "BSc", institution |-> "MIT", year |-> "2019"]>>,
    skills |-> [technical |-> <<>>, soft |-> <<"Leadership">>]]}

\* Every personalDetails with every experience, without and with the other
\* two sections; and every education with every skills, for each way of
\* having or lacking the first two sections.
AllResumes ==
  {Resume(pd, ex, rest[1], rest[2]) :
     pd \in Opt("personalDetails", PersonalDetails),
     ex \in Opt("experience", ExperienceLists),
     rest \in {<<<<>>, <<>>>>,
               <<[education |-> <<[degree |-> "BSc", institution |-> "MIT", year |-> "2019"]>>],
                 [skills |-> [technical |-> <<"Python", "SQL">>]]>>}}
    \cup
  {Resume(first[1], first[2], ed, sk) :
     first \in {<<>>, [personalDetails |-> [name |-> "Ann Lee", email |-> "ann@example.com",
                                            phone |-> "555-0100"]]}
               \X {<<>>, [experience |-> <<[title |-> "Engineer",
                                            description |-> DescLongPercent]>>]},
     ed \in Opt("education", EducationLists),
     sk \in Opt("skills", SkillSets)}
    \cup DollarResumes \cup EmptyValueResumes

EmptyResume == <<>>

FullResume ==
  [personalDetails |-> [name |-> "Ann Lee", email |-> "ann@example.com", phone |-> "555-0100"],
   experience |-> <<[title |-> "Engineer", description |-> DescLongPercent]>>,
   education |-> <<[degree |-> "BSc", institution |-> "MIT", year |-> "2019"]>>,
   skills |-> [technical |-> <<"Python", "SQL">>]]

\* the resumes the end-to-end runs use
SampleResumes ==
  {EmptyResume, FullResume,
   [personalDetails |-> [name |-> "", email |-> ""],
    experience |-> <<[title |-> "Engineer", description |-> DescShortPlain]>>,
    skills |-> [soft |-> <<"Leadership">>]],
   [personalDetails |-> [name |-> "Ann Lee"], experience |-> <<>>, education |-> <<>>,
    skills |-> [technical |-> <<>>]]}

AISuggestion(type) ==
  [type |-> type, title |-> "AI " \o type, description |-> "from the model"]

SuggestionTypes == {"warning", "info", "success"}

\* a suggestion of the model that happens to carry the title of a rule
AIMissingEmail ==
  [type |-> "warning", title |-> "Missing Email",
   description |-> "The resume shows no email address"]

AISuggestionLists ==
  SeqsUpTo({AISuggestion(t) : t \in SuggestionTypes}, MaxAISuggestions)
    \cup {[i \in 1..n |-> AISuggestion("warning")] : n \in 1..MaxAIWarnings}
    \cup {<<AIMissingEmail, AISuggestion("info")>>}

RawScores == {0 - 5, 150}

\* every raw score with every list of suggestions, and with the two fields
\* that analyzeResume hands on
AllAnalyses ==
  {sc @@ rest :
     sc \in Opt("score", RawScores),
     rest \in Opt("suggestions", AISuggestionLists)
                \cup {[keywords |-> <<"Python">>, atsCompatibility |-> 150]}}

\* the raw analyses the end-to-end runs use
SampleAnalyses ==
  {[score |-> 50, suggestions |-> <<AISuggestion("warning"), AISuggestion("success")>>,
    keywords |-> <<"Python">>, atsCompatibility |-> 80],
   [score |-> 150, suggestions |-> <<>>, atsCompatibility |-> 150],
   [score |-> 0 - 5, suggestions |-> <<AISuggestion("info")>>, atsCompatibility |-> 0 - 5],
   [suggestions |-> [i \in 1..MaxAIWarnings |-> AISuggestion("warning")]],
   [keywords |-> <<"Docker">>]}

JobDescriptions ==
  {"Python, Docker, Leadership", "Senior JavaScript engineer who knows PostgreSQL"}

JobDescriptionStack ==
  "We build with TypeScript, React and Node.js on AWS, run Kubernetes, store data in MongoDB and use Git in an Agile team"

\* job descriptions for the analyzer alone: none of the vocabulary, the two
\* above, other letter cases, and more skills than the suggestion lists
AllJobDescriptions ==
  JobDescriptions
    \cup {"", "Looking for a friendly barista", "PYTHON and docker; LEADERSHIP",
          JobDescriptionStack}

JobMatchSkillSets ==
  {[technical |-> <<"Python", "SQL">>, soft |-> <<"Leadership">>],
   [technical |-> <<"python", "DOCKER", "typescript", "ReactJS">>],
   [technical |-> <<"TypeScript", "React", "Node.js", "AWS", "Kubernetes", "MongoDB", "Git">>,
    soft |-> <<"Agile">>],
   [technical |-> <<"React", "Node.js", "Kubernetes">>],
   [technical |-> <<"Python">>]}

\* resumes for analyzeJobMatch: what matters is the text they serialize to
JobMatchResumes ==
  {Resume(pd, ex, <<>>, sk) :
     pd \in Opt("personalDetails", {[name |-> "Ann Lee", email |-> "ann@example.com"]}),
     ex \in Opt("experience", {<<>>, <<[title |-> "Engineer", description |-> DescLongPercent]>>,
                               <<[title |-> "JavaScript developer"]>>}),
     sk \in Opt("skills", JobMatchSkillSets)}
    \cup {FullResume}

\* the fields of a raw job-match analysis other than its suggestions
JobMatchFields ==
  {<<>>, [score |-> 72], [score |-> 150, atsCompatibility |-> 150],
   [keywords |-> <<>>, atsCompatibility |-> 0 - 5],
   [score |-> 72, keywords |-> <<"Docker", "React">>, atsCompatibility |-> 80],
   [keywords |-> <<"React", "React">>]}

\* the inputs of analyzeJobMatch and the raw analysis the service returns:
\* every resume and job description with every choice of the other fields,
\* without and with suggestions; and every list of suggestions for two
\* resumes and two job descriptions
JobMatchInputs ==
  {<<r, jd, rest @@ sg>> :
     r \in JobMatchResumes, jd \in AllJobDescriptions, rest \in JobMatchFields,
     sg \in Opt("suggestions", {<<AISuggestion("warning"), AISuggestion("success")>>})}
    \cup
  {<<r, jd, rest @@ sg>> :
     r \in {EmptyResume, FullResume},
     jd \in {"Python, Docker, Leadership", JobDescriptionStack},
     rest \in {<<>>, [score |-> 72, keywords |-> <<"Docker", "React">>]},
     sg \in Opt("suggestions", AISuggestionLists)}

ResumeTexts == {"John Doe\nSoftware Engineer\njohn@example.com\n+1234567890"}

Providers == {"openai", "claude", "gemini", "ollama"}

ConfigMaps == {<<>>, [model |-> "custom-model", url |-> "http://gpu-host:11434"]}

LLMConfigs ==
  {[provider |-> p, config |-> c] : p \in Providers, c \in ConfigMaps}
    \cup {[provider |-> p, config |-> <<>>] : p \in {"azure", "OpenAI"}}

LiteralTexts == {"", "not json", "{}", "null", "{\"score\": 9"}

\* the contents a backend may hand back for an operation
Contents(operation) ==
  {Undefined, Null} \cup {Text(t) : t \in LiteralTexts}
    \cup {JSONOf(o) : o \in IF operation = "parseResume" THEN SampleResumes
                            ELSE SampleAnalyses}

\* a backend call fails (the SDK throws, fetch rejects), or an HTTP endpoint
\* answers with a status that is not a success, or the call yields a content
\* (only fetch, which OllamaService uses, resolves on such a status)
Responses(class, operation) ==
  {[status |-> "error", message |-> m] :
       m \in {"401 Incorrect API key provided", "Connection error."}}
    \cup (IF class = "OllamaService"
            THEN {[status |-> "http_error", statusText |-> "Internal Server Error"]}
            ELSE {})
    \cup {[status |-> "ok", content |-> c] : c \in Contents(operation)}

NoResponse == [status |-> "none"]
NoRequest == [api |-> "none"]
NoCall == [caller |-> "none"]

(***************************************************************************)
(* State.  One caller builds a service with the factory and invokes one    *)
(* operation on it, directly (parseResume, as the routes do) or through a  *)
(* ResumeAnalyzer.                                                         *)
(***************************************************************************)
VARIABLES
  pc,           \* where the caller is
  llmConfig,    \* the LLMConfig handed to createLLMService
  service,      \* the LLMService the factory returned, or the error it threw
  call,         \* the operation invoked and its arguments
  request,      \* the outbound request of the operation
  backendCalls, \* outbound backend calls issued so far
  response,     \* what the backend answered
  settled,      \* how the LLMService operation settled
  result,       \* how the ResumeAnalyzer operation settled
  previous,     \* an earlier analysis of the same resume: what the service
                \* returned then, and what the analyzer made of it
  tasks,        \* the async functions in flight side by side (invocations of
                \* the analyzer, route handlers), each with its position and
                \* its local variables
  storage,      \* the MemStorage of the routes
  wizard        \* the state of the Dashboard component

\* the variables that the single caller of the two specifications below
\* leaves alone
others == <<tasks, storage, wizard>>

vars ==
  <<pc, llmConfig, service, call, request, backendCalls, response, settled, result,
    previous, tasks, storage, wizard>>

\* new MemStorage()
EmptyStorage ==
  [llmConfigs |-> <<>>, currentLLMConfigId |-> 1, resumes |-> <<>>, currentResumeId |-> 1]

\* the Dashboard as useState initialises it
InitialWizard == [activeStep |-> "upload", resumeId |-> JSNull, progress |-> 1]

\* nothing runs side by side, the storage is new, the Dashboard is as mounted
OthersIdle ==
  /\ tasks = <<>>
  /\ storage = EmptyStorage
  /\ wizard = InitialWizard

Init ==
  /\ pc = "start"
  /\ llmConfig = [provider |-> "none", config |-> <<>>]
  /\ service = NoService
  /\ call = NoCall
  /\ request = NoRequest
  /\ backendCalls = 0
  /\ response = NoResponse
  /\ settled = Pending
  /\ result = Pending
  /\ previous = Pending
  /\ OthersIdle

\* createLLMService(config)
CreateLLMService(cfg) ==
  /\ pc = "start"
  /\ llmConfig' = cfg
  /\ LET made == CreateService(cfg)
     IN  IF made.status = "returned"
           THEN /\ service' = made.value
                /\ pc' = "ready"
           ELSE /\ service' = [class |-> "none", error |-> made.message]
                /\ pc' = "factory_error"
  /\ UNCHANGED <<others, call, request, backendCalls, response, settled, result, previous>>

\* an operation of the service runs up to its await: the request goes out
Issue(c) ==
  /\ pc = "ready"
  /\ call' = c
  /\ request' = RequestOf(service, c.operation)
  /\ backendCalls' = backendCalls + 1
  /\ pc' = "awaiting"
  /\ UNCHANGED <<others, llmConfig, service, response, settled, result, previous>>

\* llmService.parseResume(text), called by a route
ParseResume(text) ==
  Issue([caller |-> "route", operation |-> "parseResume", text |-> text])

\* ResumeAnalyzer.analyzeResume(parsedResume) up to its await
AnalyzeResume(parsedResume) ==
  Issue([caller |-> "analyzer", operation |-> "analyzeResume",
         parsedResume |-> parsedResume])

\* ResumeAnalyzer.analyzeJobMatch(parsedResume, jobDescription) up to its await
AnalyzeJobMatch(parsedResume, jobDescription) ==
  Issue([caller |-> "analyzer", operation |-> "analyzeJobMatch",
         parsedResume |-> parsedResume, jobDescription |-> jobDescription])

\* the backend answers (the environment)
BackendRespond ==
  /\ pc = "awaiting"
  /\ \E resp \in Responses(service.class, call.operation) : response' = resp
  /\ pc' = "answered"
  /\ UNCHANGED <<others, llmConfig, service, call, request, backendCalls, settled, result, previous>>

\* the rest of the service's operation, after its await
Settle(class, outcome) ==
  /\ pc = "answered"
  /\ service.class = class
  /\ settled' = outcome
  /\ pc' = IF call.caller = "analyzer" THEN "settled" ELSE "done"
  /\ UNCHANGED <<others, llmConfig, service, call, request, backendCalls, response, result, previous>>

\* OllamaSettle with one retry: a failed call is issued once more
OllamaSettleRetry ==
  \/ /\ pc = "answered"
     /\ service.class = "OllamaService"
     /\ response.status /= "ok"
     /\ backendCalls < 2
     /\ backendCalls' = backendCalls + 1
     /\ pc' = "awaiting"
     /\ UNCHANGED <<others, llmConfig, service, call, request, response, settled, result, previous>>
  \/ /\ response.status = "ok" \/ backendCalls >= 2
     /\ Settle("OllamaService", OllamaResult(response))

OpenAISettle == Settle("OpenAIService", OpenAIResult(response))
ClaudeSettle == Settle("ClaudeService", ClaudeResult(response))
GeminiSettle == Settle("GeminiService", GeminiResult(response))
OllamaSettle == Settle("OllamaService", OllamaResult(response))

\* what the service returned, as the enhancement step of the operation
\* leaves it (the step does not run when the service threw or returned null)
SettledAfterEnhance ==
  IF settled.status = "returned" /\ settled.value /= JSNull
    THEN Returned(JSObject(
           IF call.operation = "analyzeResume"
             THEN AnalysisAfterEnhance(settled.value.props, call.parsedResume)
             ELSE AnalysisAfterJobMatch(settled.value.props, call.parsedResume,
                                        call.jobDescription)))
    ELSE settled

\* the rest of ResumeAnalyzer.analyzeResume: enhance, or catch and rethrow
AnalyzeResumeReturn ==
  /\ pc = "settled"
  /\ call.operation = "analyzeResume"
  /\ result' = AnalyzeResumeOutcome(settled, call.parsedResume)
  /\ settled' = SettledAfterEnhance
  /\ pc' = "done"
  /\ UNCHANGED <<others, llmConfig, service, call, request, backendCalls, response, previous>>

\* the rest of ResumeAnalyzer.analyzeJobMatch
AnalyzeJobMatchReturn ==
  /\ pc = "settled"
  /\ call.operation = "analyzeJobMatch"
  /\ result' = AnalyzeJobMatchOutcome(settled, call.parsedResume, call.jobDescription)
  /\ settled' = SettledAfterEnhance
  /\ pc' = "done"
  /\ UNCHANGED <<others, llmConfig, service, call, request, backendCalls, response, previous>>

Next ==
  \/ \E cfg \in LLMConfigs : CreateLLMService(cfg)
  \/ \E text \in ResumeTexts : ParseResume(text)
  \/ \E r \in SampleResumes : AnalyzeResume(r)
  \/ \E r \in SampleResumes, jd \in JobDescriptions : AnalyzeJobMatch(r, jd)
  \/ BackendRespond
  \/ OpenAISettle
  \/ ClaudeSettle
  \/ GeminiSettle
  \/ OllamaSettle
  \/ AnalyzeResumeReturn
  \/ AnalyzeJobMatchReturn

Spec == Init /\ [][Next]_vars

(***************************************************************************)
(* The analyzer alone, over every combination of resume and raw analysis:  *)
(* a run starts where the service has just returned a raw analysis to      *)
(* ResumeAnalyzer.analyzeResume or to ResumeAnalyzer.analyzeJobMatch.  The *)
(* caller of analyzeResume may then analyse the same resume once more, the *)
(* service returning an analysis that differs from the first in its score  *)
(* at most; or the enhancement step may be applied a second time to the    *)
(* analysis and the resume of the first.                                   *)
(***************************************************************************)
AnalyzerService == NewOllamaService(<<>>)

AnalyzerInit ==
  /\ pc = "settled"
  /\ llmConfig = [provider |-> "ollama", config |-> <<>>]
  /\ service = AnalyzerService
  /\ \/ \E r \in AllResumes, a \in AllAnalyses :
          /\ call = [caller |-> "analyzer", operation |-> "analyzeResume",
                     parsedResume |-> r]
          /\ response = [status |-> "ok", content |-> JSONOf(a)]
     \/ \E in \in JobMatchInputs :
          /\ call = [caller |-> "analyzer", operation |-> "analyzeJobMatch",
                     parsedResume |-> in[1], jobDescription |-> in[2]]
          /\ response = [status |-> "ok", content |-> JSONOf(in[3])]
  /\ settled = OllamaResult(response)
  /\ request = RequestOf(AnalyzerService, call.operation)
  /\ backendCalls = 1
  /\ result = Pending
  /\ previous = Pending
  /\ OthersIdle

\* the analysis a with its score replaced by what sc holds ({} or {score})
WithScore(a, sc) == sc @@ [k \in DOMAIN a \ {"score"} |-> a[k]]

\* a second analyzeResume of the same resume, up to the return of the service
AnalyzeResumeAgain ==
  /\ pc = "done"
  /\ call.operation = "analyzeResume"
  /\ previous = Pending
  /\ result.status = "returned"
  /\ \E sc \in Opt("score", RawScores) :
       /\ response' = [status |-> "ok",
                       content |-> JSONOf(WithScore(settled.value.props, sc))]
       /\ settled' = OllamaResult(response')
  /\ previous' = [status |-> "returned", analysis |-> settled.value.props,
                  value |-> result.value]
  /\ result' = Pending
  /\ backendCalls' = backendCalls + 1
  /\ pc' = "settled"
  /\ UNCHANGED <<others, llmConfig, service, call, request>>

\* the enhancement step applied once more to the same raw analysis and the
\* same resume
EnhanceAgain ==
  /\ pc = "done"
  /\ previous = Pending
  /\ result.status = "returned"
  /\ previous' = [status |-> "returned", analysis |-> settled.value.props,
                  value |-> result.value]
  /\ result' =
       Returned(JSObject(
         IF call.operation = "analyzeResume"
           THEN EnhanceAnalysis(settled.value.props, call.parsedResume)
           ELSE EnhanceJobMatchAnalysis(settled.value.props, call.parsedResume,
                                        call.jobDescription)))
  /\ settled' = SettledAfterEnhance
  /\ UNCHANGED <<others, pc, llmConfig, service, call, request, backendCalls, response>>

AnalyzerNext ==
  \/ AnalyzeResumeReturn
  \/ AnalyzeJobMatchReturn
  \/ AnalyzeResumeAgain
  \/ EnhanceAgain

AnalyzerSpec == AnalyzerInit /\ [][AnalyzerNext]_vars

(***************************************************************************)
(* Invocations side by side.  Several callers invoke operations of one     *)
(* ResumeAnalyzer, and so of one LLMService; each invocation runs up to    *)
(* its await, the backend answers the invocations in any order, and each   *)
(* invocation goes on from its await when its answer is there.             *)
(***************************************************************************)
MaxInvocations == 2

Invocations == 1..MaxInvocations

callerVars ==
  <<pc, llmConfig, service, call, request, backendCalls, response, settled, result,
    previous>>

IdleInvocation ==
  [pc |-> "idle", call |-> NoCall, requestNo |-> 0, response |-> NoResponse,
   result |-> Pending]

ConcurrentConfigs ==
  {[provider |-> "openai", config |-> <<>>], [provider |-> "ollama", config |-> <<>>]}

ConcurrentResumes == {EmptyResume, FullResume}

\* what the backend may answer an invocation
ConcurrentResponses ==
  {[status |-> "error", message |-> "Connection error."],
   [status |-> "ok", content |-> JSONOf([score |-> 50, suggestions |-> <<AISuggestion("info")>>])]}

ConcurrentInit ==
  /\ \E cfg \in ConcurrentConfigs :
       /\ llmConfig = cfg
       /\ service = CreateService(cfg).value
  /\ pc = "ready"
  /\ call = NoCall
  /\ request = NoRequest
  /\ backendCalls = 0
  /\ response = NoResponse
  /\ settled = Pending
  /\ result = Pending
  /\ previous = Pending
  /\ tasks = [i \in Invocations |-> IdleInvocation]
  /\ storage = EmptyStorage
  /\ wizard = InitialWizard

\* an operation of the analyzer is invoked and runs up to the await of the
\* backend call
InvokeAnalyzeResume(i, parsedResume) ==
  /\ tasks[i].pc = "idle"
  /\ tasks' = [tasks EXCEPT ![i] = [pc |-> "awaiting",
                  call |-> [caller |-> "analyzer", operation |-> "analyzeResume",
                            parsedResume |-> parsedResume],
                                    requestNo |-> backendCalls + 1,
                                    response |-> NoResponse, result |-> Pending]]
  /\ backendCalls' = backendCalls + 1
  /\ UNCHANGED <<pc, llmConfig, service, call, request, response, settled, result, previous,
                 storage, wizard>>

InvokeAnalyzeJobMatch(i, parsedResume, jobDescription) ==
  /\ tasks[i].pc = "idle"
  /\ tasks' = [tasks EXCEPT ![i] = [pc |-> "awaiting",
                  call |-> [caller |-> "analyzer", operation |-> "analyzeJobMatch",
                            parsedResume |-> parsedResume, jobDescription |-> jobDescription],
                                    requestNo |-> backendCalls + 1,
                                    response |-> NoResponse, result |-> Pending]]
  /\ backendCalls' = backendCalls + 1
  /\ UNCHANGED <<pc, llmConfig, service, call, request, response, settled, result, previous,
                 storage, wizard>>

\* the backend answers the call of invocation i
BackendAnswers(i) ==
  /\ tasks[i].pc = "awaiting"
  /\ \E resp \in ConcurrentResponses :
       tasks' = [tasks EXCEPT ![i].pc = "answered", ![i].response = resp]
  /\ UNCHANGED <<callerVars, storage, wizard>>

\* how an operation of a service of this class settles on a response
ResultOf(class, resp) ==
  CASE class = "OpenAIService" -> OpenAIResult(resp)
    [] class = "ClaudeService" -> ClaudeResult(resp)
    [] class = "GeminiService" -> GeminiResult(resp)
    [] class = "OllamaService" -> OllamaResult(resp)

\* ResumeEnhanced for an analyzer that keeps the resume of the call in a
\* field, this.parsedResume = parsedResume, and enhances with the field
\* after the await: the resume of the invocation that came last
ResumeEnhancedFromField(ts, i) ==
  LET last == CHOOSE j \in DOMAIN ts : \A k \in DOMAIN ts : ts[k].requestNo <= ts[j].requestNo
  IN  ts[last].call.parsedResume

\* the resume that invocation i hands to the enhancement step after its
\* await: its own parameter parsedResume
ResumeEnhanced(ts, i) == ts[i].call.parsedResume

\* invocation i goes on after its await: the operation of the service
\* settles, and the analyzer enhances what it returned or rethrows
InvocationReturns(i) ==
  /\ tasks[i].pc = "answered"
  /\ LET returned == ResultOf(service.class, tasks[i].response)
         outcome ==
           IF tasks[i].call.operation = "analyzeResume"
             THEN AnalyzeResumeOutcome(returned, ResumeEnhanced(tasks, i))
             ELSE AnalyzeJobMatchOutcome(returned, ResumeEnhanced(tasks, i),
                                         tasks[i].call.jobDescription)
     IN  tasks' = [tasks EXCEPT ![i].pc = "done", ![i].result = outcome]
  /\ UNCHANGED <<callerVars, storage, wizard>>

ConcurrentNext ==
  \/ \E i \in Invocations, r \in ConcurrentResumes : InvokeAnalyzeResume(i, r)
  \/ \E i \in Invocations : InvokeAnalyzeJobMatch(i, FullResume, "Python, Docker, Leadership")
  \/ \E i \in Invocations : BackendAnswers(i)
  \/ \E i \in Invocations : InvocationReturns(i)

ConcurrentSpec == ConcurrentInit /\ [][ConcurrentNext]_vars

(***************************************************************************)
(* The routes over the in-memory storage.  A handler runs from one await   *)
(* to the next in one step: a call of a storage method reads or writes the *)
(* maps when it is made, and the handler goes on from the await later, so  *)
(* the steps of the handlers of several requests interleave.               *)
(***************************************************************************)
MaxRequests == 2

Requests == 1..MaxRequests

\* a userId that is absent, null or 0: `|| null` stores each of them as null
NoUserId == 0

\* MemStorage.getLLMConfigsByUserId
GetLLMConfigsByUserId(st, userId) ==
  SelectSeq(st.llmConfigs, LAMBDA config : config.userId = userId)

\* MemStorage.getActiveLLMConfig: the first in the order of insertion, and
\* nothing when there is none
GetActiveLLMConfig(st, userId) ==
  LET found == SelectSeq(st.llmConfigs,
                         LAMBDA config : config.userId = userId /\ config.isActive)
  IN  IF found = <<>> THEN JSNull ELSE Head(found)

\* MemStorage.updateLLMConfig(id, {isActive}); the entry keeps its place in
\* the map.  No route removes a configuration, so the id is always found.
UpdateLLMConfig(st, id, isActive) ==
  [st EXCEPT !.llmConfigs =
     [k \in DOMAIN st.llmConfigs |->
        IF st.llmConfigs[k].id = id
          THEN [st.llmConfigs[k] EXCEPT !.isActive = isActive]
          ELSE st.llmConfigs[k]]]

\* MemStorage.createLLMConfig: the next id, userId || null, isActive || null
\* (null and false are both not active)
CreateLLMConfig(st, userId, provider, isActive) ==
  [st EXCEPT !.llmConfigs = Append(st.llmConfigs,
                                   [id |-> st.currentLLMConfigId, userId |-> userId,
                                    provider |-> provider, isActive |-> isActive]),
             !.currentLLMConfigId = st.currentLLMConfigId + 1]

\* MemStorage.getResume
GetResume(st, id) ==
  LET found == SelectSeq(st.resumes, LAMBDA resume : resume.id = id)
  IN  IF found = <<>> THEN JSNull ELSE Head(found)

\* MemStorage.createResume
CreateResume(st, userId, parsedData) ==
  [st EXCEPT !.resumes = Append(st.resumes,
                                [id |-> st.currentResumeId, userId |-> userId,
                                 parsedData |-> parsedData, analysisResults |-> JSNull]),
             !.currentResumeId = st.currentResumeId + 1]

\* MemStorage.updateResume(id, {analysisResults}); no route removes a
\* resume, so the id that getResume found is still there
UpdateResume(st, id, analysisResults) ==
  [st EXCEPT !.resumes =
     [k \in DOMAIN st.resumes |->
        IF st.resumes[k].id = id
          THEN [st.resumes[k] EXCEPT !.analysisResults = analysisResults]
          ELSE st.resumes[k]]]

SupportedProviders == {"openai", "claude", "gemini", "ollama"}

\* the providers a posted configuration names: the schema takes any text
PostedProviders == {"openai", "mistral"}

\* the userId a posted configuration carries, NoUserId when it carries none
PostedUserIds == {NoUserId, 1, 2}

MaxFileSize == 10485760

\* validateFileType
ValidateFileType(mimetype) ==
  mimetype \in {"application/pdf", "application/msword",
                "application/vnd.openxmlformats-officedocument.wordprocessingml.document",
                "text/plain"}

\* validateFileSize
ValidateFileSize(size) == size <= MaxFileSize

\* req.file: nothing, or what multer kept of the upload
NoFile == [mimetype |-> "", size |-> 0]

UploadedFiles ==
  {NoFile,
   [mimetype |-> "image/png", size |-> 2048],
   [mimetype |-> "application/pdf", size |-> MaxFileSize + 1],
   [mimetype |-> "application/pdf", size |-> 2048]}

ParseResumeOutcomes ==
  {Returned(JSObject(FullResume)), Returned(JSNull), Thrown("Connection error.")}

AnalyzeResumeOutcomes ==
  {Returned(JSObject([score |-> 85, suggestions |-> <<>>])), Thrown("Connection error.")}

\* the storage after one configuration was posted for user 1, and after a
\* resume was uploaded then
StorageConfigured == CreateLLMConfig(EmptyStorage, 1, "openai", TRUE)

StorageWithResume == CreateResume(StorageConfigured, 1, JSObject(FullResume))

RoutesStorages == {EmptyStorage, StorageConfigured, StorageWithResume}

NoReply == [status |-> 0, message |-> ""]

IdleHandler ==
  [route |-> "none", pc |-> "idle", userId |-> NoUserId, provider |-> "", existing |-> <<>>,
   resumeId |-> 0, resume |-> JSNull, llmConfig |-> JSNull, ai |-> Pending, res |-> NoReply]

RoutesInit ==
  /\ pc = "ready"
  /\ llmConfig = [provider |-> "openai", config |-> <<>>]
  /\ service = CreateService(llmConfig).value
  /\ call = NoCall
  /\ request = NoRequest
  /\ backendCalls = 0
  /\ response = NoResponse
  /\ settled = Pending
  /\ result = Pending
  /\ previous = Pending
  /\ tasks = [i \in Requests |-> IdleHandler]
  /\ storage \in RoutesStorages
  /\ wizard = InitialWizard

\* POST /api/llm/config with a body the schema rejects
ConfigRejected(i) ==
  /\ tasks[i].pc = "idle"
  /\ tasks' = [tasks EXCEPT ![i].route = "config", ![i].pc = "responded",
                            ![i].res = [status |-> 400, message |-> "Required"]]
  /\ UNCHANGED <<callerVars, storage, wizard>>

\* POST /api/llm/config up to the first await: the configurations of the
\* user are read
ConfigStart(i, userId, provider) ==
  /\ tasks[i].pc = "idle"
  /\ LET existingConfigs ==
           GetLLMConfigsByUserId(storage, IF userId = NoUserId THEN 1 ELSE userId)
     IN  tasks' = [tasks EXCEPT ![i].route = "config", ![i].pc = "deactivating",
                                ![i].userId = userId, ![i].provider = provider,
                                ![i].existing = [k \in DOMAIN existingConfigs |->
                                                   existingConfigs[k].id]]
  /\ UNCHANGED <<callerVars, storage, wizard>>

\* one turn of the loop: the next of the configurations read is deactivated
ConfigDeactivate(i) ==
  /\ tasks[i].route = "config"
  /\ tasks[i].pc = "deactivating"
  /\ tasks[i].existing /= <<>>
  /\ storage' = UpdateLLMConfig(storage, Head(tasks[i].existing), FALSE)
  /\ tasks' = [tasks EXCEPT ![i].existing = Tail(tasks[i].existing)]
  /\ UNCHANGED <<callerVars, wizard>>

\* after the loop: the new configuration is created, active
ConfigCreate(i) ==
  /\ tasks[i].route = "config"
  /\ tasks[i].pc = "deactivating"
  /\ tasks[i].existing = <<>>
  /\ storage' = CreateLLMConfig(storage, tasks[i].userId, tasks[i].provider, TRUE)
  /\ tasks' = [tasks EXCEPT ![i].pc = "created"]
  /\ UNCHANGED <<callerVars, wizard>>

\* res.json(newConfig)
ConfigRespond(i) ==
  /\ tasks[i].route = "config"
  /\ tasks[i].pc = "created"
  /\ tasks' = [tasks EXCEPT ![i].pc = "responded",
                            ![i].res = [status |-> 200, message |-> ""]]
  /\ UNCHANGED <<callerVars, storage, wizard>>

\* POST /api/resume/upload up to the await of parseFile
UploadStart(i, file) ==
  /\ tasks[i].pc = "idle"
  /\ tasks' =
       IF file = NoFile
         THEN [tasks EXCEPT ![i].route = "upload", ![i].pc = "responded",
                            ![i].res = [status |-> 400, message |-> "No file uploaded"]]
       ELSE IF ~ValidateFileType(file.mimetype)
         THEN [tasks EXCEPT ![i].route = "upload", ![i].pc = "responded",
                            ![i].res = [status |-> 400,
                                        message |-> "Unsupported file type. Please upload PDF, DOC, or DOCX files."]]
       ELSE IF ~ValidateFileSize(file.size)
         THEN [tasks EXCEPT ![i].route = "upload", ![i].pc = "responded",
                            ![i].res = [status |-> 400,
                                        message |-> "File too large. Maximum size is 10MB."]]
         ELSE [tasks EXCEPT ![i].route = "upload", ![i].pc = "parsing file"]
  /\ UNCHANGED <<callerVars, storage, wizard>>

\* parseFile is through: it threw, or the active configuration of user 1
\* is read
UploadFileParsed(i, parsed) ==
  /\ tasks[i].route = "upload"
  /\ tasks[i].pc = "parsing file"
  /\ tasks' =
       IF parsed
         THEN [tasks EXCEPT ![i].pc = "config read",
                            ![i].llmConfig = GetActiveLLMConfig(storage, 1)]
         ELSE [tasks EXCEPT ![i].pc = "responded",
                            ![i].res = [status |-> 500,
                                        message |-> "Failed to parse file: Unknown error"]]
  /\ UNCHANGED <<callerVars, storage, wizard>>

\* after getActiveLLMConfig: 400 without a configuration, 500 when the
\* factory throws, else the AI operation is called and awaited
CallsAI(i, route, notFound) ==
  /\ tasks[i].route = route
  /\ tasks[i].pc = "config read"
  /\ tasks' =
       IF tasks[i].llmConfig = JSNull
         THEN [tasks EXCEPT ![i].pc = "responded",
                            ![i].res = [status |-> 400, message |-> notFound]]
       ELSE IF tasks[i].llmConfig.provider \notin SupportedProviders
         THEN [tasks EXCEPT ![i].pc = "responded",
                            ![i].res = [status |-> 500,
                                        message |-> "Unsupported LLM provider: "
                                                      \o tasks[i].llmConfig.provider]]
         ELSE [tasks EXCEPT ![i].pc = "awaiting AI"]
  /\ UNCHANGED <<callerVars, storage, wizard>>

UploadCallsAI(i) ==
  CallsAI(i, "upload", "No LLM configuration found. Please configure an LLM first.")

\* the storage after the upload handler's await of parseResume: the record
\* is created when parseResume returned; when it threw, the catch is next
StorageAfterParseAlways(st, outcome) ==
  CreateResume(st, 1, IF outcome.status = "returned" THEN outcome.value ELSE JSNull)

StorageAfterParse(st, outcome) ==
  IF outcome.status = "returned" THEN CreateResume(st, 1, outcome.value) ELSE st

\* parseResume settled: the record is created, or the catch answers 500
UploadParsed(i, outcome) ==
  /\ tasks[i].route = "upload"
  /\ tasks[i].pc = "awaiting AI"
  /\ storage' = StorageAfterParse(storage, outcome)
  /\ tasks' =
       IF outcome.status = "returned"
         THEN [tasks EXCEPT ![i].pc = "stored", ![i].ai = outcome,
                            ![i].resumeId = storage.currentResumeId]
         ELSE [tasks EXCEPT ![i].pc = "responded", ![i].ai = outcome,
                            ![i].res = [status |-> 500, message |-> outcome.message]]
  /\ UNCHANGED <<callerVars, wizard>>

\* res.json of the upload or of the analysis
RespondsStored(i) ==
  /\ tasks[i].route \in {"upload", "analyze"}
  /\ tasks[i].pc = "stored"
  /\ tasks' = [tasks EXCEPT ![i].pc = "responded",
                            ![i].res = [status |-> 200, message |-> ""]]
  /\ UNCHANGED <<callerVars, storage, wizard>>

\* POST /api/resume/:id/analyze up to the first await: the resume is read
AnalyzeStart(i, resumeId) ==
  /\ tasks[i].pc = "idle"
  /\ tasks' = [tasks EXCEPT ![i].route = "analyze", ![i].pc = "resume read",
                            ![i].resumeId = resumeId,
                            ![i].resume = GetResume(storage, resumeId)]
  /\ UNCHANGED <<callerVars, storage, wizard>>

\* after getResume: 404, 400, or the active configuration of the user of
\* the resume is read
AnalyzeResumeRead(i) ==
  /\ tasks[i].route = "analyze"
  /\ tasks[i].pc = "resume read"
  /\ tasks' =
       IF tasks[i].resume = JSNull
         THEN [tasks EXCEPT ![i].pc = "responded",
                            ![i].res = [status |-> 404, message |-> "Resume not found"]]
       ELSE IF tasks[i].resume.parsedData = JSNull
         THEN [tasks EXCEPT ![i].pc = "responded",
                            ![i].res = [status |-> 400, message |-> "Resume not parsed yet"]]
         ELSE [tasks EXCEPT ![i].pc = "config read",
                            ![i].llmConfig =
                              GetActiveLLMConfig(storage,
                                                 IF tasks[i].resume.userId = NoUserId
                                                   THEN 1 ELSE tasks[i].resume.userId)]
  /\ UNCHANGED <<callerVars, storage, wizard>>

AnalyzeCallsAI(i) == CallsAI(i, "analyze", "No LLM configuration found")

\* the storage after the analyze handler's await of analyzeResume
StorageAfterAnalysis(st, resumeId, outcome) ==
  IF outcome.status = "returned" THEN UpdateResume(st, resumeId, outcome.value) ELSE st

\* analyzeResume settled: the analysis is written, or the catch answers 500
AnalyzeAnalyzed(i, outcome) ==
  /\ tasks[i].route = "analyze"
  /\ tasks[i].pc = "awaiting AI"
  /\ storage' = StorageAfterAnalysis(storage, tasks[i].resumeId, outcome)
  /\ tasks' =
       IF outcome.status = "returned"
         THEN [tasks EXCEPT ![i].pc = "stored", ![i].ai = outcome]
         ELSE [tasks EXCEPT ![i].pc = "responded", ![i].ai = outcome,
                            ![i].res = [status |-> 500, message |-> outcome.message]]
  /\ UNCHANGED <<callerVars, wizard>>

RoutesNext ==
  \/ \E i \in Requests : ConfigRejected(i)
  \/ \E i \in Requests, userId \in PostedUserIds, provider \in PostedProviders :
       ConfigStart(i, userId, provider)
  \/ \E i \in Requests : ConfigDeactivate(i)
  \/ \E i \in Requests : ConfigCreate(i)
  \/ \E i \in Requests : ConfigRespond(i)
  \/ \E i \in Requests, file \in UploadedFiles : UploadStart(i, file)
  \/ \E i \in Requests, parsed \in BOOLEAN : UploadFileParsed(i, parsed)
  \/ \E i \in Requests : UploadCallsAI(i)
  \/ \E i \in Requests, outcome \in ParseResumeOutcomes : UploadParsed(i, outcome)
  \/ \E i \in Requests, resumeId \in 1..2 : AnalyzeStart(i, resumeId)
  \/ \E i \in Requests : AnalyzeResumeRead(i)
  \/ \E i \in Requests : AnalyzeCallsAI(i)
  \/ \E i \in Requests, outcome \in AnalyzeResumeOutcomes : AnalyzeAnalyzed(i, outcome)
  \/ \E i \in Requests : RespondsStored(i)

RoutesSpec == RoutesInit /\ [][RoutesNext]_vars

(***************************************************************************)
(* The Dashboard wizard: the state of the component and its two handlers.  *)
(* The sidebar gets handleStepChange and may ask for any step; the buttons *)
(* of the steps ask for the step before or after the one shown.            *)
(***************************************************************************)
MaxResumeId == 20

\* the ids of the steps, in the order of the list `steps`
Steps == <<"upload", "llm-config", "parsing", "suggestions", "templates", "download">>

\* steps.findIndex(s => s.id === step): from 0, and -1 when there is none
FindIndex(step) ==
  IF \E n \in DOMAIN Steps : Steps[n] = step
    THEN (CHOOSE n \in DOMAIN Steps :
            Steps[n] = step /\ \A m \in 1..(n - 1) : Steps[m] /= step) - 1
    ELSE -1

\* the progress handleStepChange sets, were it the index from 0
ProgressOfFromZero(step) == FindIndex(step)

\* the progress handleStepChange sets for a step
ProgressOf(step) == FindIndex(step) + 1

WizardInit ==
  /\ pc = "ready"
  /\ llmConfig = [provider |-> "openai", config |-> <<>>]
  /\ service = CreateService(llmConfig).value
  /\ call = NoCall
  /\ request = NoRequest
  /\ backendCalls = 0
  /\ response = NoResponse
  /\ settled = Pending
  /\ result = Pending
  /\ previous = Pending
  /\ tasks = <<>>
  /\ storage = EmptyStorage
  /\ wizard = InitialWizard

\* handleStepChange(step)
HandleStepChange(step) ==
  /\ wizard' = [wizard EXCEPT !.activeStep = step, !.progress = ProgressOf(step)]
  /\ UNCHANGED <<callerVars, tasks, storage>>

\* handleResumeUploaded(id)
HandleResumeUploaded(id) ==
  /\ wizard' = [activeStep |-> "parsing", resumeId |-> [type |-> "number", value |-> id],
                progress |-> 3]
  /\ UNCHANGED <<callerVars, tasks, storage>>

WizardNext ==
  \/ \E n \in DOMAIN Steps : HandleStepChange(Steps[n])
  \/ \E id \in 1..MaxResumeId : HandleResumeUploaded(id)

WizardSpec == WizardInit /\ [][WizardNext]_vars

(***************************************************************************)
(* Properties.                                                             *)
(***************************************************************************)
\* the operation has returned an object to its caller
ResumeAnalysisReturned ==
  /\ pc = "done"
  /\ call.caller = "analyzer"
  /\ call.operation = "analyzeResume"
  /\ result.status = "returned"

JobMatchReturned ==
  /\ pc = "done"
  /\ call.caller = "analyzer"
  /\ call.operation = "analyzeJobMatch"
  /\ result.status = "returned"

\* what the service returned to the analyzer
RawAnalysis == settled.value.props

InRange(x) == 0 <= x /\ x <= 100

NumberOfWarnings(suggestions) ==
  Cardinality({i \in 1..Len(suggestions) : suggestions[i].type = "warning"})

\* C1: every result that ResumeAnalyzer.analyzeResume returns has a score
\* between 0 and 100, whatever the service returned
C1_ScoreInRange ==
  ResumeAnalysisReturned => InRange(result.value.props.score)

\* a result whose score is held at 0: the raw score was 150, and the warnings
\* alone cost more than the resume's 100 points less its missing sections
C1_Witness ==
  /\ ResumeAnalysisReturned
  /\ Has(RawAnalysis, "score") /\ RawAnalysis.score = 150
  /\ result.value.props.score = 0
  /\ NumberOfWarnings(result.value.props.suggestions) > 9
  /\ ~Has(call.parsedResume, "experience")

NoName(r) ==
  ~(Has(r, "personalDetails") /\ Has(r.personalDetails, "name") /\ r.personalDetails.name /= "")
NoExperience(r) == ~(Has(r, "experience") /\ r.experience /= <<>>)
NoEducation(r) == ~(Has(r, "education") /\ r.education /= <<>>)
NoTechnicalSkills(r) ==
  ~(Has(r, "skills") /\ Has(r.skills, "technical") /\ r.skills.technical /= <<>>)

Deductions(r, suggestions) ==
    5 * NumberOfWarnings(suggestions)
  + (IF NoName(r) THEN 10 ELSE 0)
  + (IF NoExperience(r) THEN 20 ELSE 0)
  + (IF NoEducation(r) THEN 10 ELSE 0)
  + (IF NoTechnicalSkills(r) THEN 15 ELSE 0)

\* C2: the returned score is 100 less 5 for every warning of the returned
\* list (AI-supplied or appended by a rule), 10 for no name, 20 for no
\* experience entry, 10 for no education entry and 15 for no technical
\* skill, held within 0..100; info and success suggestions cost nothing
C2_ScoreFormula ==
  ResumeAnalysisReturned =>
    LET d == Deductions(call.parsedResume, result.value.props.suggestions)
    IN  result.value.props.score = (IF d > 100 THEN 0 ELSE 100 - d)

\* a result with an AI warning, an AI suggestion that is no warning and a
\* warning appended by a rule, for a resume that lacks a name only
C2_Witness ==
  /\ ResumeAnalysisReturned
  /\ Has(RawAnalysis, "suggestions")
  /\ \E i, j \in 1..Len(RawAnalysis.suggestions) :
       /\ RawAnalysis.suggestions[i].type = "warning"
       /\ RawAnalysis.suggestions[j].type = "success"
  /\ Len(result.value.props.suggestions) > Len(RawAnalysis.suggestions)
  /\ NumberOfWarnings(result.value.props.suggestions) = 2
  /\ NoName(call.parsedResume) /\ ~NoExperience(call.parsedResume)
  /\ ~NoEducation(call.parsedResume) /\ ~NoTechnicalSkills(call.parsedResume)
  /\ result.value.props.score = 80

\* C3: a score or an atsCompatibility in a result of analyzeResume or
\* analyzeJobMatch lies between 0 and 100, whatever the service returned
C3_ScoresClamped ==
  (ResumeAnalysisReturned \/ JobMatchReturned) =>
    /\ Has(result.value.props, "score") => InRange(result.value.props.score)
    /\ Has(result.value.props, "atsCompatibility") =>
         InRange(result.value.props.atsCompatibility)

ServiceClassOf(provider) ==
  CASE provider = "openai" -> "OpenAIService"
    [] provider = "claude" -> "ClaudeService"
    [] provider = "gemini" -> "GeminiService"
    [] provider = "ollama" -> "OllamaService"

\* C4: the factory returns the service of the provider's class for openai,
\* claude, gemini and ollama; for any other provider it throws the
\* unsupported-provider error, and no backend call has been made
C4_FactoryByProvider ==
  pc /= "start" =>
    IF llmConfig.provider \in {"openai", "claude", "gemini", "ollama"}
      THEN /\ pc /= "factory_error"
           /\ service.class = ServiceClassOf(llmConfig.provider)
      ELSE /\ pc = "factory_error"
           /\ service = [class |-> "none",
                         error |-> "Unsupported LLM provider: " \o llmConfig.provider]
           /\ backendCalls = 0
           /\ request = NoRequest

\* the factory has refused a provider that differs from a supported one in
\* case only
C4_Witness ==
  /\ pc = "factory_error"
  /\ llmConfig.provider = "OpenAI"
  /\ Has(service, "error")

ServiceSettled == pc \in {"settled", "done"} /\ settled.status /= "none"

EmptyContent(c) == c = Text("") \/ c = Undefined

\* C5: whichever the provider and the operation, an empty response of the
\* backend makes the operation of the service throw
C5_EmptyResponseThrows ==
  (ServiceSettled /\ response.status = "ok" /\ EmptyContent(response.content))
    => settled.status = "thrown"

\* C6: whichever the provider and the operation, a response that is text but
\* not JSON makes the operation of the service throw, and the operation of
\* the analyzer that called it throw too: no object is returned
C6_MalformedThrows ==
  (ServiceSettled /\ response.status = "ok"
     /\ response.content \in {Text("not json"), Text("{\"score\": 9")})
    => /\ settled.status = "thrown"
       /\ (pc = "done" /\ call.caller = "analyzer") => result.status = "thrown"

\* the self-hosted service has thrown on the text "not json" in parseResume
C6_Witness ==
  /\ pc = "done"
  /\ service.class = "OllamaService"
  /\ call.operation = "parseResume"
  /\ response = [status |-> "ok", content |-> Text("not json")]
  /\ settled.status = "thrown"

StepPrefix(operation) ==
  IF operation = "analyzeResume" THEN "Failed to analyze resume: "
  ELSE "Failed to analyze job match: "

\* C7: when the service call inside analyzeResume or analyzeJobMatch throws,
\* the analyzer throws an error whose message is the step's prefix followed
\* by the message of the cause, and returns no result
C7_FailureWrapped ==
  (pc = "done" /\ call.caller = "analyzer" /\ settled.status = "thrown")
    => result = Thrown(StepPrefix(call.operation) \o settled.message)

\* analyzeJobMatch has rethrown a transport failure of the backend
C7_Witness ==
  /\ pc = "done"
  /\ call.operation = "analyzeJobMatch"
  /\ response = [status |-> "error", message |-> "Connection error."]
  /\ result = Thrown("Failed to analyze job match: Connection error.")

BackendFailed == response.status \in {"error", "http_error"}

\* the outcome the caller of the invocation sees
CallerOutcome == IF call.caller = "analyzer" THEN result ELSE settled

\* C8: an invocation issues at most one backend call: exactly one is out once
\* the operation has started, and when the backend fails the caller gets
\* the error with no second call
C8_OneBackendCall ==
  /\ backendCalls <= 1
  /\ pc \in {"awaiting", "answered", "settled", "done"} => backendCalls = 1
  /\ (pc = "done" /\ BackendFailed) => CallerOutcome.status = "thrown"

\* the self-hosted backend answered with an HTTP error status, and the
\* analyzer has thrown after the one call
C8_Witness ==
  /\ pc = "done"
  /\ response.status = "http_error"
  /\ call.caller = "analyzer"
  /\ backendCalls = 1
  /\ result = Thrown("Failed to analyze resume: Ollama request failed: Internal Server Error")

\* C9: two analyses of the same resume whose raw results differ in the score
\* at most return the same result
C9_RawScoreIgnored ==
  (ResumeAnalysisReturned /\ previous.status = "returned")
    => result.value = previous.value

\* both analyses have returned, from raw scores 150 and -5
C9_Witness ==
  /\ ResumeAnalysisReturned
  /\ previous.status = "returned"
  /\ Has(previous.analysis, "score") /\ previous.analysis.score = 150
  /\ Has(RawAnalysis, "score") /\ RawAnalysis.score = 0 - 5
  /\ result.value.props.score = 65

LacksEverySection(r) ==
  /\ ~Has(r, "personalDetails")
  /\ ~Has(r, "experience")
  /\ ~Has(r, "education")
  /\ ~(Has(r, "skills") /\ Has(r.skills, "technical"))

\* C10: for a resume with no personalDetails, no experience, no education
\* and no skills.technical the returned score is at most 45
C10_MissingSectionsCeiling ==
  (ResumeAnalysisReturned /\ LacksEverySection(call.parsedResume))
    => result.value.props.score <= 45

\* such a resume, analysed with a raw score of 150 and no AI suggestion
C10_Witness ==
  /\ ResumeAnalysisReturned
  /\ LacksEverySection(call.parsedResume)
  /\ Has(call.parsedResume, "skills")
  /\ Has(RawAnalysis, "score") /\ RawAnalysis.score = 150
  /\ ~Has(RawAnalysis, "suggestions")
  /\ result.value.props.score = 30

\* an analyzer operation has returned an object to its caller
AnalyzerReturned ==
  /\ pc = "done"
  /\ call.caller = "analyzer"
  /\ result.status = "returned"

\* the suggestions the service returned, none if it returned no list
RawSuggestions == IF Has(RawAnalysis, "suggestions") THEN RawAnalysis.suggestions ELSE <<>>

\* the suggestions of the result after the first Len(RawSuggestions)
Appended ==
  SubSeq(result.value.props.suggestions, Len(RawSuggestions) + 1,
         Len(result.value.props.suggestions))

\* the titles of the rules of an operation, in the order the claims give
RuleTitles(operation) ==
  IF operation = "analyzeResume"
    THEN <<"Missing Email", "Missing Phone Number", "Expand Experience Descriptions",
           "Add Quantifiable Achievements">>
    ELSE <<"Missing Key Skills">>

\* the titles of the suggestions xs are titles of ts, in strictly ascending
\* order of their positions in ts
InOrderOf(xs, ts) ==
  /\ \A i \in 1..Len(xs) : \E k \in 1..Len(ts) : xs[i].title = ts[k]
  /\ \A i, j \in 1..Len(xs) :
       i < j => \A k, l \in 1..Len(ts) :
                  (xs[i].title = ts[k] /\ xs[j].title = ts[l]) => k < l

\* C11: the suggestions of a result of analyzeResume or analyzeJobMatch start
\* with the suggestions the service returned, unchanged and in their order,
\* and go on with suggestions of the rules only; those of analyzeResume come
\* in the order Missing Email, Missing Phone Number, Expand Experience
\* Descriptions, Add Quantifiable Achievements
C11_AISuggestionsFirst ==
  AnalyzerReturned =>
    /\ Len(result.value.props.suggestions) >= Len(RawSuggestions)
    /\ SubSeq(result.value.props.suggestions, 1, Len(RawSuggestions)) = RawSuggestions
    /\ InOrderOf(Appended, RuleTitles(call.operation))

\* two suggestions of the model, one of them titled like a rule, and then
\* the four rules of analyzeResume
C11_Witness ==
  /\ ResumeAnalysisReturned
  /\ RawSuggestions = <<AIMissingEmail, AISuggestion("info")>>
  /\ Len(Appended) = 4

HostedProviders == {"openai", "claude", "gemini"}

\* the default model of a hosted provider
DefaultModelOf(provider) ==
  CASE provider = "openai" -> DEFAULT_OPENAI_MODEL
    [] provider = "claude" -> DEFAULT_CLAUDE_MODEL
    [] provider = "gemini" -> DEFAULT_GEMINI_MODEL

\* a request has gone out to the backend
RequestSent == request.api /= "none"

\* C12: the model a hosted provider's request names is the model of the
\* config when the config has one, and the default model of the provider
\* when it has none
C12_ConfigModelSent ==
  (RequestSent /\ llmConfig.provider \in HostedProviders) =>
    request.model =
      IF Has(llmConfig.config, "model") THEN llmConfig.config.model
      ELSE DefaultModelOf(llmConfig.provider)

ServiceClasses == {"OpenAIService", "ClaudeService", "GeminiService", "OllamaService"}

\* C13: the instruction text a request carries is the text that each of the
\* four service classes sends for the same operation
C13_SameInstructions ==
  RequestSent =>
    \A class \in ServiceClasses : request.system = SystemPrompt(class, request.operation)

\* how many of the suggestions xs have this type and this title
CountOf(xs, type, title) ==
  Cardinality({i \in 1..Len(xs) : xs[i].type = type /\ xs[i].title = title})

\* personalDetails.k is absent, also when personalDetails is
ContactAbsent(r, k) == (~Has(r, "personalDetails")) \/ ~Has(r.personalDetails, k)

\* personalDetails.k holds a string that is not empty
ContactGiven(r, k) ==
  Has(r, "personalDetails") /\ Has(r.personalDetails, k) /\ Len(r.personalDetails[k]) > 0

\* C14: analyzeResume appends the warning Missing Email exactly once when
\* personalDetails.email is absent and the warning Missing Phone Number
\* exactly once when personalDetails.phone is absent, personalDetails being
\* absent included; it appends neither more than once, and not at all when
\* the field holds a non-empty value
C14_ContactWarnings ==
  ResumeAnalysisReturned =>
    /\ ContactAbsent(call.parsedResume, "email")
         => CountOf(Appended, "warning", "Missing Email") = 1
    /\ ContactAbsent(call.parsedResume, "phone")
         => CountOf(Appended, "warning", "Missing Phone Number") = 1
    /\ ContactGiven(call.parsedResume, "email")
         => \A i \in 1..Len(Appended) : Appended[i].title /= "Missing Email"
    /\ ContactGiven(call.parsedResume, "phone")
         => \A i \in 1..Len(Appended) : Appended[i].title /= "Missing Phone Number"
    /\ \A t \in {"Missing Email", "Missing Phone Number"} :
         Cardinality({i \in 1..Len(Appended) : Appended[i].title = t}) <= 1

\* no personalDetails at all, and a raw analysis that carries a Missing
\* Email of its own: one of each warning is appended
C14_Witness ==
  /\ ResumeAnalysisReturned
  /\ ~Has(call.parsedResume, "personalDetails")
  /\ RawSuggestions = <<AIMissingEmail, AISuggestion("info")>>
  /\ CountOf(Appended, "warning", "Missing Email") = 1
  /\ CountOf(Appended, "warning", "Missing Phone Number") = 1

\* some experience entry has no description, or one of fewer than 50 characters
SomeEntryBrief(r) ==
  /\ Has(r, "experience")
  /\ \E i \in 1..Len(r.experience) :
       \/ ~Has(r.experience[i], "description")
       \/ Len(r.experience[i].description) < 50

\* C15: analyzeResume appends the info suggestion Expand Experience
\* Descriptions once when some experience entry has no description or one
\* shorter than 50 characters, and not at all otherwise (no experience, no
\* entries, or every description of 50 characters or more)
C15_ExpandDescriptions ==
  ResumeAnalysisReturned =>
    /\ CountOf(Appended, "info", "Expand Experience Descriptions")
         = IF SomeEntryBrief(call.parsedResume) THEN 1 ELSE 0
    /\ Cardinality({i \in 1..Len(Appended) :
                      Appended[i].title = "Expand Experience Descriptions"}) <= 1

\* two entries, the first with a long description and the second with a
\* short one: the suggestion is appended once
C15_Witness ==
  /\ ResumeAnalysisReturned
  /\ Has(call.parsedResume, "experience")
  /\ Len(call.parsedResume.experience) = 2
  /\ Len(call.parsedResume.experience[1].description) >= 50
  /\ Len(call.parsedResume.experience[2].description) < 50
  /\ CountOf(Appended, "info", "Expand Experience Descriptions") = 1

\* the descriptions of the experience entries of r, "" for a missing one
DescriptionsOf(r) ==
  IF Has(r, "experience")
    THEN {IF Has(r.experience[i], "description") THEN r.experience[i].description ELSE "" :
            i \in 1..Len(r.experience)}
    ELSE {}

NoDigit(s) == \A i \in 1..Len(s) : ~IsDigit(CharAt(s, i))

\* C16: analyzeResume appends the warning Add Quantifiable Achievements once
\* when no experience description matches the pattern (no experience at all
\* included) and not at all when one does; a description containing 25%
\* keeps the warning away, descriptions without any digit bring it
C16_QuantifiableWarning ==
  ResumeAnalysisReturned =>
    LET descriptions == DescriptionsOf(call.parsedResume)
        warnings == CountOf(Appended, "warning", "Add Quantifiable Achievements")
    IN  /\ warnings = IF \E d \in descriptions : QuantifiableTest(d) THEN 0 ELSE 1
        /\ (\E d \in descriptions : Includes(d, "25%")) => warnings = 0
        /\ (\A d \in descriptions : NoDigit(d)) => warnings = 1
        /\ Cardinality({i \in 1..Len(Appended) :
                          Appended[i].title = "Add Quantifiable Achievements"}) <= 1

\* the only description is "increased revenue by 25%": no warning
C16_Witness ==
  /\ ResumeAnalysisReturned
  /\ DescriptionsOf(call.parsedResume) = {"increased revenue by 25%"}
  /\ CountOf(Appended, "warning", "Add Quantifiable Achievements") = 0

\* the keywords the service returned, none if it returned no list
RawKeywords == IF Has(RawAnalysis, "keywords") THEN RawAnalysis.keywords ELSE <<>>

\* the keywords of the result after the first Len(RawKeywords): the
\* missingKeywords of enhanceJobMatchAnalysis
AppendedKeywords ==
  SubSeq(result.value.props.keywords, Len(RawKeywords) + 1,
         Len(result.value.props.keywords))

\* the position of a skill in the vocabulary
VocabularyIndex(skill) == CHOOSE k \in 1..Len(CommonSkills) : CommonSkills[k] = skill

\* C17: the missingKeywords of analyzeJobMatch hold exactly the skills of
\* the vocabulary that occur in the lower-cased job description and do not
\* occur in the lower-cased JSON text of the resume, each once, in the order
\* of the vocabulary
C17_MissingKeywords ==
  JobMatchReturned =>
    LET jobText == ToLowerCase(call.jobDescription)
        resumeText == ToLowerCase(StringifyResume(call.parsedResume))
        Missing(skill) == /\ Includes(jobText, ToLowerCase(skill))
                          /\ ~Includes(resumeText, ToLowerCase(skill))
        missing == AppendedKeywords
    IN  /\ \A i \in 1..Len(missing) :
             \E k \in 1..Len(CommonSkills) : missing[i] = CommonSkills[k] /\ Missing(missing[i])
        /\ \A k \in 1..Len(CommonSkills) :
             Missing(CommonSkills[k]) => \E i \in 1..Len(missing) : missing[i] = CommonSkills[k]
        /\ \A i, j \in 1..Len(missing) :
             i < j => VocabularyIndex(missing[i]) < VocabularyIndex(missing[j])

\* the job description "Python, Docker, Leadership" and a resume that names
\* Python and neither of the other two
C17_Witness ==
  /\ JobMatchReturned
  /\ call.jobDescription = "Python, Docker, Leadership"
  /\ Includes(StringifyResume(call.parsedResume), "\"Python\"")
  /\ AppendedKeywords = <<"Docker", "Leadership">>

\* the first n of the words xs, separated by a comma and a space
RECURSIVE Listed(_, _)
Listed(xs, n) ==
  IF n = 0 THEN ""
  ELSE IF n = 1 THEN xs[1]
  ELSE Listed(xs, n - 1) \o ", " \o xs[n]

\* C18: analyzeJobMatch appends one suggestion, the warning Missing Key
\* Skills of section skills, when there are missing keywords, and none when
\* there are not; its description names the first five missing keywords, or
\* all of them when they are fewer, in their order
C18_MissingKeySkills ==
  JobMatchReturned =>
    LET n == Len(AppendedKeywords)
    IN  IF n = 0 THEN Appended = <<>>
        ELSE /\ Len(Appended) = 1
             /\ Appended[1].type = "warning"
             /\ Appended[1].title = "Missing Key Skills"
             /\ Appended[1].section = "skills"
             /\ Appended[1].description =
                  "Consider adding these relevant skills: "
                    \o Listed(AppendedKeywords, IF n < 5 THEN n ELSE 5)

\* eight missing keywords, of which the warning names five
C18_Witness ==
  /\ JobMatchReturned
  /\ Len(AppendedKeywords) = 8
  /\ Len(Appended) = 1
  /\ Appended[1].description =
       "Consider adding these relevant skills: TypeScript, React, Node.js, AWS, Kubernetes"

\* the vocabulary skills that the job description names and the JSON text of
\* the resume does not, letter case aside
SkillsMissingFrom(r, jd) ==
  LET jobText == ToLowerCase(jd)
      resumeText == ToLowerCase(StringifyResume(r))
  IN  SelectSeq(CommonSkills,
                LAMBDA skill : /\ Includes(jobText, ToLowerCase(skill))
                               /\ ~Includes(resumeText, ToLowerCase(skill)))

\* C19: the keywords of a result of analyzeJobMatch are the keywords the
\* service returned followed by every missing keyword, however many, and a
\* keyword found in both stands in both places
C19_KeywordsConcatenated ==
  JobMatchReturned =>
    result.value.props.keywords
      = RawKeywords \o SkillsMissingFrom(call.parsedResume, call.jobDescription)

\* the service returned Docker and React; eight keywords are missing, React
\* among them
C19_Witness ==
  /\ JobMatchReturned
  /\ RawKeywords = <<"Docker", "React">>
  /\ Len(result.value.props.keywords) = 10
  /\ result.value.props.keywords[2] = "React"
  /\ result.value.props.keywords[4] = "React"

\* the result has the property k exactly if the raw analysis has it, and
\* then with the same value
PassedThrough(k) ==
  /\ Has(result.value.props, k) <=> Has(RawAnalysis, k)
  /\ Has(RawAnalysis, k) => result.value.props[k] = RawAnalysis[k]

\* C20: analyzeResume returns keywords and atsCompatibility as the service
\* returned them, and analyzeJobMatch returns score and atsCompatibility as
\* the service returned them
C20_FieldsPassedThrough ==
  /\ ResumeAnalysisReturned => PassedThrough("keywords") /\ PassedThrough("atsCompatibility")
  /\ JobMatchReturned => PassedThrough("score") /\ PassedThrough("atsCompatibility")

\* a job match whose raw score is 72 and whose raw atsCompatibility is 80,
\* returned with both and with a warning appended
C20_Witness ==
  /\ JobMatchReturned
  /\ Has(RawAnalysis, "score") /\ RawAnalysis.score = 72
  /\ Has(RawAnalysis, "atsCompatibility") /\ RawAnalysis.atsCompatibility = 80
  /\ result.value.props.score = 72
  /\ result.value.props.atsCompatibility = 80
  /\ Len(Appended) = 1

\* what the service returned, decoded anew from the response of the backend
ServiceReturned == OllamaResult(response).value.props

\* the enhancement step has run twice on the analysis of one service call
EnhancedTwice ==
  /\ AnalyzerReturned
  /\ previous.status = "returned"
  /\ backendCalls = 1

\* the suggestions xs after the first n
After(xs, n) == SubSeq(xs, n + 1, Len(xs))

OllamaSettled == ServiceSettled /\ service.class = "OllamaService"

\* C22: the self-hosted service posts to http://localhost:11434 when the
\* config gives no url; on an HTTP status that is no success its operation
\* throws "Ollama request failed: ..."; on a success it returns what the
\* text in the response field of the envelope decodes to, and throws when
\* that field is missing or holds text that is not JSON
C22_OllamaDecode ==
  /\ (RequestSent /\ service.class = "OllamaService" /\ ~Has(llmConfig.config, "url"))
       => request.api = "POST http://localhost:11434/api/generate"
  /\ (OllamaSettled /\ response.status = "http_error")
       => settled = Thrown("Ollama request failed: " \o response.statusText)
  /\ (OllamaSettled /\ response.status = "ok" /\ response.content.kind = "json")
       => settled = Returned(JSObject(response.content.value))
  /\ (OllamaSettled /\ response.status = "ok" /\ response.content = Text("{}"))
       => settled = Returned(JSObject(<<>>))
  /\ (OllamaSettled /\ response.status = "ok"
        /\ response.content \in {Undefined, Text(""), Text("not json"), Text("{\"score\": 9")})
       => settled.status = "thrown"

\* a service made without a url whose envelope has no response field: the
\* operation has thrown
C22_Witness ==
  /\ OllamaSettled
  /\ ~Has(llmConfig.config, "url")
  /\ request.api = "POST http://localhost:11434/api/generate"
  /\ response.status = "ok"
  /\ response.content = Undefined
  /\ settled.status = "thrown"

\* the text names a dollar amount: a dollar sign right before or right after
\* a digit
NamesDollarAmount(s) ==
  \E i \in 1..(Len(s) - 1) :
    \/ CharAt(s, i) = "$" /\ IsDigit(CharAt(s, i + 1))
    \/ IsDigit(CharAt(s, i)) /\ CharAt(s, i + 1) = "$"

\* C25: when an experience description names a dollar amount, with the
\* dollar sign before the digits ($5000) or after them (5000$),
\* analyzeResume does not append Add Quantifiable Achievements
C25_DollarAmountsCount ==
  (ResumeAnalysisReturned
     /\ \E d \in DescriptionsOf(call.parsedResume) : NamesDollarAmount(d))
    => \A i \in 1..Len(Appended) : Appended[i].title /= "Add Quantifiable Achievements"

\* the object o without the properties ks
Without(o, ks) == [k \in DOMAIN o \ ks |-> o[k]]

\* the properties among ks that o has with the empty value
EmptyAmong(o, ks, empty) == {k \in ks \cap DOMAIN o : o[k] = empty}

\* the resume r with its empty name, email and phone and its empty
\* experience, education and skills.technical left out
WithoutEmptyValues(r) ==
  LET top == Without(r, EmptyAmong(r, {"experience", "education"}, <<>>))
      pd == IF Has(r, "personalDetails")
              THEN [personalDetails |->
                      Without(r.personalDetails,
                              EmptyAmong(r.personalDetails, {"name", "email", "phone"}, ""))]
              ELSE <<>>
      sk == IF Has(r, "skills")
              THEN [skills |-> Without(r.skills, EmptyAmong(r.skills, {"technical"}, <<>>))]
              ELSE <<>>
  IN  pd @@ sk @@ top

\* C26: analyzeResume treats an empty value like an absent one: for a resume
\* with an empty email, phone or name or an empty experience, education or
\* skills.technical list, the warnings Missing Email and Missing Phone
\* Number and the score are those of the resume with the empty values left
\* out
C26_EmptyLikeAbsent ==
  (ResumeAnalysisReturned /\ WithoutEmptyValues(call.parsedResume) /= call.parsedResume) =>
    LET absent == WithoutEmptyValues(call.parsedResume)
        d == Deductions(absent, result.value.props.suggestions)
    IN  /\ CountOf(Appended, "warning", "Missing Email")
             = IF ContactAbsent(absent, "email") THEN 1 ELSE 0
        /\ CountOf(Appended, "warning", "Missing Phone Number")
             = IF ContactAbsent(absent, "phone") THEN 1 ELSE 0
        /\ result.value.props.score = (IF d > 100 THEN 0 ELSE 100 - d)

\* empty name, email and phone and empty lists throughout, no suggestion
\* from the service: both warnings and the score of the empty resume
C26_Witness ==
  /\ ResumeAnalysisReturned
  /\ Has(call.parsedResume, "personalDetails")
  /\ call.parsedResume.personalDetails = [name |-> "", email |-> "", phone |-> ""]
  /\ call.parsedResume.experience = <<>>
  /\ WithoutEmptyValues(call.parsedResume) = [personalDetails |-> <<>>, skills |-> <<>>]
  /\ RawSuggestions = <<>>
  /\ CountOf(Appended, "warning", "Missing Email") = 1
  /\ CountOf(Appended, "warning", "Missing Phone Number") = 1
  /\ result.value.props.score = 30

\* the pairs of vocabulary skills of which the first is part of the second,
\* letter case aside: Java in JavaScript, SQL in PostgreSQL
SkillsWithin ==
  {p \in {<<CommonSkills[i], CommonSkills[j]>> :
            i \in 1..Len(CommonSkills), j \in 1..Len(CommonSkills)} :
     p[1] /= p[2] /\ Includes(ToLowerCase(p[2]), ToLowerCase(p[1]))}

Among(x, xs) == \E i \in 1..Len(xs) : xs[i] = x

\* C27: for vocabulary skills k1 within k2, a job description that names k2
\* has k1 extracted too, so k1 is reported missing unless the resume text
\* has it; and k1 is not reported missing when the resume text names k2
C27_SubstringMatching ==
  JobMatchReturned =>
    LET jobText == ToLowerCase(call.jobDescription)
        resumeText == ToLowerCase(StringifyResume(call.parsedResume))
    IN  \A p \in SkillsWithin :
          /\ Includes(jobText, ToLowerCase(p[2]))
               => /\ Among(p[1], ExtractKeywords(call.jobDescription))
                  /\ Among(p[1], AppendedKeywords)
                       <=> ~Includes(resumeText, ToLowerCase(p[1]))
          /\ Includes(resumeText, ToLowerCase(p[2])) => ~Among(p[1], AppendedKeywords)

\* the job description names JavaScript and PostgreSQL, and Java and SQL
\* are reported missing with them
C27_Witness ==
  /\ JobMatchReturned
  /\ call.jobDescription = "Senior JavaScript engineer who knows PostgreSQL"
  /\ SkillsWithin = {<<"Java", "JavaScript">>, <<"SQL", "PostgreSQL">>}
  /\ AppendedKeywords = <<"JavaScript", "Java", "SQL", "PostgreSQL">>

\* what the operation c returns or throws when it runs alone on a service of
\* this class and the backend answers resp
ResultAlone(class, c, resp) ==
  IF c.operation = "analyzeResume"
    THEN AnalyzeResumeOutcome(ResultOf(class, resp), c.parsedResume)
    ELSE AnalyzeJobMatchOutcome(ResultOf(class, resp), c.parsedResume, c.jobDescription)

\* C23: however the invocations interleave at their backend calls, the
\* service stays as the factory made it and each invocation that has
\* returned or thrown has the result it has when it runs alone with the same
\* arguments and the same answer of the backend
C23_InvocationsIndependent ==
  \A i \in DOMAIN tasks :
    (Has(tasks[i], "requestNo") /\ tasks[i].pc = "done") =>
      /\ service = CreateService(llmConfig).value
      /\ tasks[i].result = ResultAlone(service.class, tasks[i].call, tasks[i].response)

\* the first invocation still awaits its answer while the second, invoked
\* after it for another resume, has returned
C23_Witness ==
  /\ DOMAIN tasks = Invocations
  /\ Has(tasks[1], "requestNo")
  /\ tasks[1].pc = "awaiting"
  /\ tasks[2].pc = "done"
  /\ tasks[1].requestNo < tasks[2].requestNo
  /\ tasks[1].call.parsedResume /= tasks[2].call.parsedResume
  /\ tasks[2].result.status = "returned"

\* the handlers of the routes, when the requests are those of the routes
Handlers == {i \in DOMAIN tasks : Has(tasks[i], "route")}

\* no request is under way
RoutesQuiet == \A i \in Handlers : tasks[i].pc \in {"idle", "responded"}

ActiveConfigsOf(userId) ==
  SelectSeq(storage.llmConfigs, LAMBDA config : config.userId = userId /\ config.isActive)

\* the configuration of the user that was created last
LatestConfigOf(userId) ==
  LET configs == GetLLMConfigsByUserId(storage, userId) IN configs[Len(configs)]

\* C28: when the requests POST /api/llm/config have completed, whatever the
\* order of their steps was, each user has at most one stored configuration
\* that is active, and it is the one created last for the user
C28_OneActiveConfig ==
  RoutesQuiet =>
    \A userId \in PostedUserIds :
      /\ Len(ActiveConfigsOf(userId)) <= 1
      /\ ActiveConfigsOf(userId) /= <<>> =>
           ActiveConfigsOf(userId)[1] = LatestConfigOf(userId)

\* what the step of handler i shows of the order of the AI step and the
\* write: the resumes change only in the step that follows the return of
\* the AI operation, and the step after a failed AI operation or after no
\* active configuration was found answers with an error status and leaves
\* the storage as it was
WritesAfterAI(i) ==
  tasks'[i] /= tasks[i] /\ tasks[i].route \in {"upload", "analyze"} =>
    /\ storage' /= storage =>
         /\ tasks[i].pc = "awaiting AI"
         /\ tasks'[i].ai.status = "returned"
         /\ tasks'[i].pc = "stored"
    /\ (tasks[i].pc = "awaiting AI" /\ tasks'[i].ai.status = "thrown") =>
         /\ storage' = storage
         /\ tasks'[i].pc = "responded"
         /\ tasks'[i].res.status = 500
    /\ (tasks[i].pc = "config read" /\ tasks[i].llmConfig = JSNull) =>
         /\ storage' = storage
         /\ tasks'[i].pc = "responded"
         /\ tasks'[i].res.status = 400

\* C29: the upload handler creates the resume record only after parseResume
\* returned and the analyze handler writes analysisResults only after
\* analyzeResume returned; when the AI step fails or there is no active
\* configuration the storage stays as it was and the response is an error
C29_StoredAfterAI ==
  [][\A i \in Handlers : WritesAfterAI(i)]_vars

\* one upload was answered 200 and its record holds what parseResume
\* returned, and an analysis was answered 500 after analyzeResume threw and
\* left the resume without analysis results
C29_Witness ==
  /\ Handlers = DOMAIN tasks
  /\ \E i \in Handlers :
       /\ tasks[i].route = "upload"
       /\ tasks[i].pc = "responded"
       /\ tasks[i].res.status = 200
       /\ tasks[i].ai.status = "returned"
       /\ GetResume(storage, tasks[i].resumeId).parsedData = tasks[i].ai.value
  /\ \E i \in Handlers :
       /\ tasks[i].route = "analyze"
       /\ tasks[i].pc = "responded"
       /\ tasks[i].res.status = 500
       /\ tasks[i].ai.status = "thrown"
       /\ GetResume(storage, tasks[i].resumeId).analysisResults = JSNull

\* the place of the active step in the list of the six steps, from 1
StepNumber == CHOOSE n \in DOMAIN Steps : Steps[n] = wizard.activeStep

\* C30: after any sequence of step changes and uploads the progress shown
\* is the place of the active step among the six steps, counted from 1, and
\* every step that brings a resume id leaves the wizard at the step
\* "parsing" with progress 3
C30_ProgressFollowsStep ==
  /\ [](/\ wizard.activeStep \in {Steps[n] : n \in DOMAIN Steps}
        /\ wizard.progress \in 1..6
        /\ wizard.progress = StepNumber)
  /\ [][wizard'.resumeId /= wizard.resumeId =>
          wizard'.activeStep = "parsing" /\ wizard'.progress = 3]_vars

\* a resume was uploaded and the wizard was taken on to the last step
C30_Witness ==
  /\ wizard.resumeId /= JSNull
  /\ wizard.activeStep = "download"
  /\ wizard.progress = 6

=============================================================================
